---- MODULE Spec2Model ----
(***************************************************************************)
(* Model of the configuration-driven lifecycle core of zalo_bot:           *)
(*   - services/app_settings.py : AppSettings schema and ConfigManager     *)
(*     (load / update / save with temp-file-then-rename persistence);      *)
(*   - services/advisor/agent.py: AgentAdvisor.initialize / shutdown;      *)
(*   - services/zalo/bot.py     : ZaloBot.connect / disconnect.            *)
(*                                                                         *)
(* JSON values are modelled as tagged nodes: [leaf |-> token] for a        *)
(* scalar, [dict |-> f] for an object (f maps keys to nodes) and           *)
(* [list |-> s] for an array.  Scalar tokens are strings: "true"/"false"   *)
(* are JSON booleans, "null" is JSON null, "s:..." is a JSON string and    *)
(* "n:..." a JSON number.  Typed settings (the pydantic AppSettings        *)
(* object) are TLA+ records with BOOLEAN / string / integer fields, so     *)
(* model_dump and model_validate are genuine conversions.                  *)
(***************************************************************************)
EXTENDS Integers, Sequences, FiniteSets, TLC

\* ------------------------------------------------------------------------
\* JSON nodes
\* ------------------------------------------------------------------------
Leaf(t) == [leaf |-> t]
Dict(f) == [dict |-> f]
List(s) == [list |-> s]
IsLeaf(n) == DOMAIN n = {"leaf"}
IsDict(n) == DOMAIN n = {"dict"}
IsList(n) == DOMAIN n = {"list"}

\* The empty Python dict {}.
EmptyDict == [k \in {} |-> Leaf("null")]

\* ------------------------------------------------------------------------
\* AppSettings schema (reduced to the fields the lifecycle core reads)
\* ------------------------------------------------------------------------
\* ModelConfig defaults.
DefaultModel == [name |-> "llama3", temperature |-> 7]

\* AgentConfig defaults: enabled, default prompt, no tools, default model.
DefaultAgentConfig ==
    [enabled |-> TRUE, system_prompt |-> "p0", tools |-> <<>>, model |-> DefaultModel]

\* ZaloConfig defaults: oa enabled, personal disabled.
DefaultZaloConfig ==
    [oa |-> [enabled |-> TRUE], personal |-> [enabled |-> FALSE]]

\* AppSettings(): every section built by its default factory.
DefaultSettings ==
    [agent_config |-> DefaultAgentConfig, zalo_config |-> DefaultZaloConfig]

\* lax bool validation of pydantic: bools, the integers 0/1 and the
\* strings yes/no/true/false... are accepted and converted.
BoolOk(n) == IsLeaf(n) /\ n.leaf \in {"true", "false", "s:yes", "s:no", "n:1", "n:0"}
ToBool(n) == n.leaf \in {"true", "s:yes", "n:1"}

\* str validation: only JSON strings are accepted (no coercion from numbers).
StrOk(n) == IsLeaf(n) /\ n.leaf \in {"s:p0", "s:p1", "s:llama3"}
ToStr(n) == CASE n.leaf = "s:p0" -> "p0"
              [] n.leaf = "s:p1" -> "p1"
              [] OTHER -> "llama3"
StrTok(s) == CASE s = "p0" -> "s:p0"
               [] s = "p1" -> "s:p1"
               [] OTHER -> "s:llama3"

\* float validation: JSON numbers and numeric strings are accepted.
NumOk(n) == IsLeaf(n) /\ n.leaf \in {"n:1", "n:7", "s:1"}
ToNum(n) == IF n.leaf = "n:7" THEN 7 ELSE 1
NumTok(i) == IF i = 7 THEN "n:7" ELSE "n:1"

BoolTok(b) == IF b THEN "true" ELSE "false"

\* A validated ToolConfig, reduced to its name and enabled flag.
ToolNames == {"google_search", "scraper_content"}
ToolNameTok(s) == IF s = "google_search" THEN "s:google_search" ELSE "s:scraper_content"
ToolNameOk(n) == IsLeaf(n) /\ n.leaf \in {"s:google_search", "s:scraper_content"}
ToToolName(n) == IF n.leaf = "s:google_search" THEN "google_search" ELSE "scraper_content"

\* extra='forbid' of BaseSettings: a dict validates against a model only
\* when it is a dict and has no key outside the model's fields.
NoExtra(n, fields) == IsDict(n) /\ DOMAIN n.dict \subseteq fields

\* Field f of dict node n, or the node dflt when the key is missing.
FieldOr(n, f, dflt) == IF f \in DOMAIN n.dict THEN n.dict[f] ELSE dflt

\* ------------------------------------------------------------------------
\* model_dump: typed settings -> nested dict
\* ------------------------------------------------------------------------
DumpTool(t) == Dict([name |-> Leaf(ToolNameTok(t.name)), enabled |-> Leaf(BoolTok(t.enabled))])

DumpModel(m) == Dict([name |-> Leaf(StrTok(m.name)), temperature |-> Leaf(NumTok(m.temperature))])

DumpAgent(a) ==
    Dict([enabled |-> Leaf(BoolTok(a.enabled)),
          system_prompt |-> Leaf(StrTok(a.system_prompt)),
          tools |-> List([i \in 1..Len(a.tools) |-> DumpTool(a.tools[i])]),
          model |-> DumpModel(a.model)])

DumpFlag(c) == Dict([enabled |-> Leaf(BoolTok(c.enabled))])

DumpZalo(z) == Dict([oa |-> DumpFlag(z.oa), personal |-> DumpFlag(z.personal)])

\* AppSettings.model_dump(): the root dict (a function from keys to nodes).
model_dump(S) ==
    [agent_config |-> DumpAgent(S.agent_config), zalo_config |-> DumpZalo(S.zalo_config)]

\* ------------------------------------------------------------------------
\* model_validate: nested dict -> typed settings, or a validation error
\* ------------------------------------------------------------------------
ToolOk(n) ==
    /\ NoExtra(n, {"name", "enabled"})
    /\ "name" \in DOMAIN n.dict /\ ToolNameOk(n.dict.name)
    /\ BoolOk(FieldOr(n, "enabled", Leaf("true")))

ToTool(n) ==
    [name |-> ToToolName(n.dict.name), enabled |-> ToBool(FieldOr(n, "enabled", Leaf("true")))]

ToolsOk(n) == IsList(n) /\ \A i \in 1..Len(n.list) : ToolOk(n.list[i])

ModelOk(n) ==
    /\ NoExtra(n, {"name", "temperature"})
    /\ StrOk(FieldOr(n, "name", Leaf(StrTok(DefaultModel.name))))
    /\ NumOk(FieldOr(n, "temperature", Leaf(NumTok(DefaultModel.temperature))))

ToModel(n) ==
    [name |-> ToStr(FieldOr(n, "name", Leaf(StrTok(DefaultModel.name)))),
     temperature |-> ToNum(FieldOr(n, "temperature", Leaf(NumTok(DefaultModel.temperature))))]

AgentOk(n) ==
    /\ NoExtra(n, {"enabled", "system_prompt", "tools", "model"})
    /\ BoolOk(FieldOr(n, "enabled", Leaf("true")))
    /\ StrOk(FieldOr(n, "system_prompt", Leaf("s:p0")))
    /\ ToolsOk(FieldOr(n, "tools", List(<<>>)))
    /\ ModelOk(FieldOr(n, "model", DumpModel(DefaultModel)))

ToAgent(n) ==
    [enabled |-> ToBool(FieldOr(n, "enabled", Leaf("true"))),
     system_prompt |-> ToStr(FieldOr(n, "system_prompt", Leaf("s:p0"))),
     tools |-> LET l == FieldOr(n, "tools", List(<<>>)).list
               IN [i \in 1..Len(l) |-> ToTool(l[i])],
     model |-> ToModel(FieldOr(n, "model", DumpModel(DefaultModel)))]

FlagOk(n, dflt) ==
    /\ NoExtra(n, {"enabled"})
    /\ BoolOk(FieldOr(n, "enabled", Leaf(BoolTok(dflt))))

ToFlag(n, dflt) == [enabled |-> ToBool(FieldOr(n, "enabled", Leaf(BoolTok(dflt))))]

ZaloOk(n) ==
    /\ NoExtra(n, {"oa", "personal"})
    /\ FlagOk(FieldOr(n, "oa", DumpFlag(DefaultZaloConfig.oa)), TRUE)
    /\ FlagOk(FieldOr(n, "personal", DumpFlag(DefaultZaloConfig.personal)), FALSE)

ToZalo(n) ==
    [oa |-> ToFlag(FieldOr(n, "oa", DumpFlag(DefaultZaloConfig.oa)), TRUE),
     personal |-> ToFlag(FieldOr(n, "personal", DumpFlag(DefaultZaloConfig.personal)), FALSE)]

\* Does AppSettings.model_validate(d) succeed on the root dict d?
ValidationOk(d) ==
    /\ DOMAIN d \subseteq {"agent_config", "zalo_config"}
    /\ AgentOk(FieldOr(Dict(d), "agent_config", DumpAgent(DefaultAgentConfig)))
    /\ ZaloOk(FieldOr(Dict(d), "zalo_config", DumpZalo(DefaultZaloConfig)))

\* AppSettings.model_validate(d) for a root dict d that validates.
model_validate(d) ==
    [agent_config |-> ToAgent(FieldOr(Dict(d), "agent_config", DumpAgent(DefaultAgentConfig))),
     zalo_config |-> ToZalo(FieldOr(Dict(d), "zalo_config", DumpZalo(DefaultZaloConfig)))]

\* ------------------------------------------------------------------------
\* ConfigManager.update: the recursive merge
\* ------------------------------------------------------------------------
RECURSIVE merge(_, _)

\* merge with the recursion left out: the patch value always replaces.
merge_shallow(a, b) ==
    [key \in DOMAIN a \cup DOMAIN b |-> IF key \in DOMAIN b THEN b[key] ELSE a[key]]

\* merge that builds its result from the keys of the patch only.
merge_patch_keys_only(a, b) ==
    [key \in DOMAIN b |->
        IF IsDict(b[key]) /\ key \in DOMAIN a /\ IsDict(a[key])
        THEN Dict(merge(a[key].dict, b[key].dict))
        ELSE b[key]]

\* merge that never replaces an existing value of another kind.
merge_keep_existing(a, b) ==
    [key \in DOMAIN a \cup DOMAIN b |->
        IF key \in DOMAIN b
        THEN IF IsDict(b[key]) /\ key \in DOMAIN a /\ IsDict(a[key])
             THEN Dict(merge(a[key].dict, b[key].dict))
             ELSE IF key \in DOMAIN a /\ (IsDict(a[key]) \/ IsDict(b[key]))
                  THEN a[key]
                  ELSE b[key]
        ELSE a[key]]

merge(a, b) ==
    [key \in DOMAIN a \cup DOMAIN b |->
        IF key \in DOMAIN b
        THEN IF IsDict(b[key]) /\ key \in DOMAIN a /\ IsDict(a[key])
             THEN Dict(merge(a[key].dict, b[key].dict))
             ELSE b[key]
        ELSE a[key]]

\* ------------------------------------------------------------------------
\* JSON text: model_dump_json / json.loads
\* ------------------------------------------------------------------------
\* A document is a sequence of entries, one per scalar (or list) in field
\* order, each carrying its key path, closed by the final brace.  A text
\* that lacks the closing brace does not parse.
KeyOrder ==
    <<"agent_config", "zalo_config", "enabled", "system_prompt", "tools", "model",
      "name", "temperature", "oa", "personal", "extra">>

CloseBrace == [p |-> <<>>, n |-> Leaf("}")]

RECURSIVE Flatten(_, _, _)
Flatten(d, pre, i) ==
    IF i > Len(KeyOrder) THEN <<>>
    ELSE LET k == KeyOrder[i]
             here == IF k \notin DOMAIN d THEN <<>>
                     ELSE IF IsDict(d[k]) /\ DOMAIN d[k].dict # {}
                          THEN Flatten(d[k].dict, pre \o <<k>>, 1)
                          ELSE <<[p |-> pre \o <<k>>, n |-> d[k]]>>
         IN here \o Flatten(d, pre, i + 1)

\* json.dumps of a root dict.
json_dumps(d) == Flatten(d, <<>>, 1) \o <<CloseBrace>>

\* AppSettings.model_dump_json().
model_dump_json(S) == json_dumps(model_dump(S))

\* json.loads succeeds only on a complete document.
JsonOk(text) ==
    /\ Len(text) > 0
    /\ text[Len(text)] = CloseBrace
    /\ \A i \in 1..(Len(text) - 1) : text[i] # CloseBrace

IsPrefix(s, t) == Len(s) <= Len(t) /\ SubSeq(t, 1, Len(s)) = s

RECURSIVE Unflatten(_, _)
Unflatten(E, pre) ==
    LET below == {e \in E : Len(e.p) > Len(pre) /\ IsPrefix(pre, e.p)}
        keys == {e.p[Len(pre) + 1] : e \in below}
    IN [k \in keys |->
           IF \E e \in E : e.p = pre \o <<k>>
           THEN (CHOOSE e \in E : e.p = pre \o <<k>>).n
           ELSE Dict(Unflatten(E, pre \o <<k>>))]

\* json.loads of a complete document: the root dict.
json_loads(text) == Unflatten({text[i] : i \in 1..(Len(text) - 1)}, <<>>)

\* ------------------------------------------------------------------------
\* Files
\* ------------------------------------------------------------------------
Absent == [exists |-> FALSE, text |-> <<>>]
FileOf(text) == [exists |-> TRUE, text |-> text]


\* ------------------------------------------------------------------------
\* Bounds and inputs
\* ------------------------------------------------------------------------
\* Callers of update(), numbered in the order in which they call; each is
\* one request (one coroutine) making one update() call.
NumCallers == 2
Procs == 1..NumCallers
NoProc == 0

\* PATCH bodies submitted by the concurrent callers.
PatchEmpty == EmptyDict
PatchPrompt == [agent_config |-> Dict([system_prompt |-> Leaf("s:p1")])]
PatchPromptBack == [agent_config |-> Dict([system_prompt |-> Leaf("s:p0")])]
PatchPersonal == [zalo_config |-> Dict([personal |-> Dict([enabled |-> Leaf("true")])])]
PatchDisable == [agent_config |-> Dict([enabled |-> Leaf("s:no")])]
PatchBadBool == [agent_config |-> Dict([enabled |-> Leaf("s:banana")])]

Patches ==
    {PatchEmpty, PatchPrompt, PatchPromptBack, PatchPersonal, PatchDisable, PatchBadBool}

\* Contents the config file may have when the process starts.
OtherSettings == [DefaultSettings EXCEPT !.agent_config.system_prompt = "p1"]
TextComplete == model_dump_json(OtherSettings)
TextTruncated == SubSeq(TextComplete, 1, 3)
TextPartialDoc == json_dumps([zalo_config |-> Dict([personal |-> Dict([enabled |-> Leaf("s:yes")])])])
TextSchemaInvalid == json_dumps([agent_config |-> Dict([enabled |-> Leaf("s:banana")])])

InitFiles ==
    {Absent, FileOf(<<>>), FileOf(TextComplete), FileOf(TextTruncated),
     FileOf(TextPartialDoc), FileOf(TextSchemaInvalid)}

\* Every settings value the single-caller specification starts from.
AllSettings ==
    {[agent_config |-> [enabled |-> e, system_prompt |-> sp, tools |-> t, model |-> DefaultModel],
      zalo_config |-> [oa |-> [enabled |-> TRUE], personal |-> [enabled |-> pe]]] :
        e \in BOOLEAN, sp \in {"p0", "p1"},
        t \in {<<>>, <<[name |-> "google_search", enabled |-> FALSE]>>},
        pe \in BOOLEAN}

\* Every patch of the schema's shape the single-caller specification submits:
\* each key is missing or takes one of a few values, among them values of
\* the wrong type, values that are converted, a scalar where a section is
\* expected, a dict where a scalar is expected and an unknown key.
Missing == Leaf("<missing>")
Present(full) == [k \in {j \in DOMAIN full : full[j] # Missing} |-> full[k]]

ModelPatches ==
    {Missing, Leaf("s:p1")} \cup
    {Dict(Present([name |-> n, temperature |-> t])) :
        n \in {Missing, Leaf("s:p1")}, t \in {Missing, Leaf("s:1"), Leaf("n:7")}}

AgentPatches ==
    {Missing} \cup
    {Dict(Present([enabled |-> e, system_prompt |-> sp, tools |-> t, model |-> m])) :
        e \in {Missing, Leaf("false"), Leaf("s:yes"), Leaf("s:banana")},
        sp \in {Missing, Leaf("s:p1")},
        t \in {Missing, List(<<Leaf("s:google_search")>>)},
        m \in ModelPatches}

ZaloPatches ==
    {Missing} \cup
    {Dict(Present([oa |-> o, personal |-> pe])) :
        o \in {Missing, Dict([enabled |-> Leaf("false")]),
               Dict([enabled |-> Dict([x |-> Leaf("true")])])},
        pe \in {Missing, Dict([enabled |-> Leaf("true")])}}

AllPatches ==
    {Present([agent_config |-> a, zalo_config |-> z, extra |-> x]) :
        a \in AgentPatches, z \in ZaloPatches, x \in {Missing, Leaf("true")}}

\* Key paths of the scalars (and lists, empty dicts) of a dict.
RECURSIVE LeafPaths(_, _)
LeafPaths(d, pre) ==
    UNION {IF IsDict(d[k]) /\ DOMAIN d[k].dict # {}
           THEN LeafPaths(d[k].dict, pre \o <<k>>)
           ELSE {pre \o <<k>>} : k \in DOMAIN d}

\* Key paths of all nodes of a dict, inner dicts included.
RECURSIVE NodePaths(_, _)
NodePaths(d, pre) ==
    UNION {{pre \o <<k>>} \cup (IF IsDict(d[k]) THEN NodePaths(d[k].dict, pre \o <<k>>) ELSE {})
           : k \in DOMAIN d}

\* The node of dict d at a non-empty key path, or Missing.
RECURSIVE Lookup(_, _)
Lookup(d, path) ==
    IF Head(path) \notin DOMAIN d THEN Missing
    ELSE IF Len(path) = 1 THEN d[Head(path)]
    ELSE IF IsDict(d[Head(path)]) THEN Lookup(d[Head(path)].dict, Tail(path))
    ELSE Missing

\* Two patches are disjoint when neither writes at or below a path of the other.
Disjoint(P, Q) ==
    \A x \in LeafPaths(P, <<>>), y \in LeafPaths(Q, <<>>) : ~IsPrefix(x, y) /\ ~IsPrefix(y, x)

\* ------------------------------------------------------------------------
\* Sessions: AgentAdvisor and ZaloBot
\* ------------------------------------------------------------------------
\* Bound on the external resources (LLM clients, Zalo logins) ever created.
MaxHandles == 2

\* self.llm = None
NoLLM == [id |-> 0, kind |-> "none"]

\* self.agent = None
NoAgent == [kind |-> "none", llm |-> 0, tools |-> <<>>, prompt |-> ""]

\* An entry of enabled_tools that is a plain tool name.
ToolName(name) == [kind |-> "str", name |-> name, enabled |-> TRUE]

\* An entry of enabled_tools that is a ToolConfig object of the settings.
ToolEntry(tool) == [kind |-> "cfg", name |-> tool.name, enabled |-> tool.enabled]

\* ["google_search", "scraper_content"], the fallback of load_config.
DefaultEnabledTools == <<ToolName("google_search"), ToolName("scraper_content")>>

\* name in self.enabled_tools: a ToolConfig object never equals a string.
InList(name, lst) == \E i \in 1..Len(lst) : lst[i].kind = "str" /\ lst[i].name = name

\* The fields AgentAdvisor.__init__ sets before it loads the configuration.
NewAdvisor ==
    [is_enabled |-> FALSE, is_initialized |-> FALSE, llm |-> NoLLM,
     tools |-> <<>>, agent |-> NoAgent, prompt |-> "", model |-> DefaultModel,
     enabled_tools |-> <<>>]

\* load_config(): copies the agent section of the settings; an empty tool
\* list falls back to the two default tool names.
load_config(a, S) ==
    [a EXCEPT !.is_enabled = S.agent_config.enabled,
              !.model = S.agent_config.model,
              !.prompt = S.agent_config.system_prompt,
              !.enabled_tools =
                  IF S.agent_config.tools # <<>>
                  THEN [i \in 1..Len(S.agent_config.tools) |-> ToolEntry(S.agent_config.tools[i])]
                  ELSE DefaultEnabledTools]

\* What constructing the LLM client can come to: a ChatGroq client when a
\* non-empty API key was found in the environment or the settings; the
\* MockLLM, built because no key was found or because ChatGroq raised; or
\* an exception out of _initialize_llm.
LLMOutcomes(key) == IF key THEN {"groq", "mock", "raise"} ELSE {"mock", "raise"}

\* _initialize_llm that keeps an LLM object the session already holds.
initialize_llm_cached(a, outcome, id) ==
    IF a.llm # NoLLM THEN a ELSE [a EXCEPT !.llm = [id |-> id, kind |-> outcome]]

\* _initialize_llm(): self.llm becomes a newly constructed object.
initialize_llm(a, outcome, id) ==
    [a EXCEPT !.llm = [id |-> id, kind |-> outcome]]

\* A tool instance: its name and the initialize() call that constructed it
\* (numbered like the LLM object of the same call).
Tool(name, id) == [name |-> name, born |-> id]

\* _initialize_tools that keeps the instances the session already holds.
ToolsReused(a, id) ==
    IF a.tools # <<>> THEN a.tools
    ELSE IF InList("google_search", a.enabled_tools) THEN <<Tool("google_search", id)>> ELSE <<>>

\* _initialize_tools(): the list is emptied and rebuilt from the tool names
\* found in enabled_tools, one instance per name. GoogleSearchTool() takes
\* no argument.
ToolsBuilt(a, id) ==
    IF InList("google_search", a.enabled_tools) THEN <<Tool("google_search", id)>> ELSE <<>>

\* ScraperContentTool() is called without its required tool_config and
\* raises TypeError.
ToolsRaise(a) == InList("scraper_content", a.enabled_tools)

\* build(): the ReAct agent over the current llm, tools and prompt, or the
\* mock agent when create_react_agent raises.
build(a, react_ok) ==
    [kind |-> IF react_ok THEN "react" ELSE "mock",
     llm |-> a.llm.id, tools |-> a.tools, prompt |-> a.prompt]

\* initialize(): the advisor after the call, what it returned and how many
\* LLM objects it constructed; id is the identity of a newly constructed one.
initialize(a, outcome, react_ok, id) ==
    IF ~a.is_enabled
    THEN [a |-> a, ret |-> FALSE, allocated |-> 0]
    ELSE IF a.is_initialized
    THEN [a |-> a, ret |-> TRUE, allocated |-> 0]
    ELSE IF outcome = "raise"
    THEN [a |-> [a EXCEPT !.is_initialized = FALSE], ret |-> FALSE, allocated |-> 0]
    ELSE IF ToolsRaise(a)
    THEN [a |-> [initialize_llm(a, outcome, id) EXCEPT !.tools = ToolsBuilt(a, id),
                                                        !.is_initialized = FALSE],
          ret |-> FALSE, allocated |-> 1]
    ELSE [a |-> [initialize_llm(a, outcome, id) EXCEPT
                     !.tools = ToolsBuilt(a, id),
                     !.agent = build([initialize_llm(a, outcome, id) EXCEPT !.tools = ToolsBuilt(a, id)],
                                     react_ok),
                     !.is_initialized = TRUE],
          ret |-> TRUE, allocated |-> 1]

\* The try block of initialize(), entered after the two checks passed: the
\* LLM, the tools and the agent are assigned and the session is marked
\* initialized. The flags are not read again, but build() returns None when
\* it finds the session disabled.
initialize_body(a, outcome, react_ok, id) ==
    IF outcome = "raise"
    THEN [a |-> [a EXCEPT !.is_initialized = FALSE], ret |-> FALSE, allocated |-> 0]
    ELSE IF ToolsRaise(a)
    THEN [a |-> [initialize_llm(a, outcome, id) EXCEPT !.tools = ToolsBuilt(a, id),
                                                        !.is_initialized = FALSE],
          ret |-> FALSE, allocated |-> 1]
    ELSE LET a1 == [initialize_llm(a, outcome, id) EXCEPT !.tools = ToolsBuilt(a, id)]
         IN [a |-> [a1 EXCEPT !.agent = IF a.is_enabled THEN build(a1, react_ok) ELSE NoAgent,
                              !.is_initialized = TRUE],
             ret |-> TRUE, allocated |-> 1]

\* shutdown(): nothing when not initialized; otherwise the agent is dropped
\* and the session is no longer initialized (llm and tools stay set).
shutdown(a) ==
    IF ~a.is_initialized THEN a
    ELSE [a EXCEPT !.agent = NoAgent, !.is_initialized = FALSE]

\* shutdown() closing the client without looking at is_initialized.
ClosesClientAlways(a) == a.llm.kind = "groq"

\* shutdown() closes the client of the llm it holds; MockLLM has no client.
ClosesClient(a) == a.is_initialized /\ a.llm.kind = "groq"

\* The fields ZaloBot.__init__ sets before it connects.
NewBot ==
    [is_enabled |-> FALSE, is_connected |-> FALSE, session |-> 0, message_handler |-> FALSE,
     listen_thread |-> 0]

\* connect(): nothing when already connected; otherwise the login of
\* ZaloAPI.__init__ opens session id, or raises.
connect(b, login_ok, id) ==
    IF b.is_connected
    THEN [b |-> b, ret |-> TRUE, allocated |-> 0]
    ELSE IF login_ok
    THEN [b |-> [b EXCEPT !.session = id, !.message_handler = TRUE, !.is_connected = TRUE],
          ret |-> TRUE, allocated |-> 1]
    ELSE [b |-> [b EXCEPT !.is_connected = FALSE], ret |-> FALSE, allocated |-> 0]

\* disconnect(): logs out when connected; a logout that raises leaves the
\* bot connected and returns False.
disconnect(b, logout_ok) ==
    IF b.is_connected /\ logout_ok
    THEN [b |-> [b EXCEPT !.is_connected = FALSE], ret |-> TRUE]
    ELSE [b |-> b, ret |-> ~b.is_connected]

\* start_listening that starts the thread without connecting first.
start_listening_unconnected(b, live, login_ok, sid, tid) ==
    IF ~b.is_enabled
    THEN [b |-> b, ret |-> FALSE, allocated |-> 0, spawned |-> 0]
    ELSE IF b.listen_thread # 0 /\ b.listen_thread \in live
    THEN [b |-> b, ret |-> TRUE, allocated |-> 0, spawned |-> 0]
    ELSE [b |-> [b EXCEPT !.listen_thread = tid], ret |-> TRUE, allocated |-> 0, spawned |-> 1]

\* start_listening(): refused when disabled; connects first when not
\* connected; nothing when the listener thread is alive; otherwise a new
\* thread tid is created and started. sid is the session a login opens.
start_listening(b, live, login_ok, sid, tid) ==
    IF ~b.is_enabled
    THEN [b |-> b, ret |-> FALSE, allocated |-> 0, spawned |-> 0]
    ELSE LET c == connect(b, login_ok, sid)
         IN IF ~c.ret
            THEN [b |-> c.b, ret |-> FALSE, allocated |-> 0, spawned |-> 0]
            ELSE IF c.b.listen_thread # 0 /\ c.b.listen_thread \in live
            THEN [b |-> c.b, ret |-> TRUE, allocated |-> c.allocated, spawned |-> 0]
            ELSE [b |-> [c.b EXCEPT !.listen_thread = tid], ret |-> TRUE,
                  allocated |-> c.allocated, spawned |-> 1]

\* The dict _save_config sends to config_manager.update: the whole agent
\* section as the advisor holds it. A tool name is sent as a string, a
\* ToolConfig object as itself.
save_config_patch(a) ==
    [agent_config |->
        Dict([enabled |-> Leaf(BoolTok(a.is_enabled)),
              system_prompt |-> Leaf(StrTok(a.prompt)),
              tools |-> List([i \in 1..Len(a.enabled_tools) |->
                                 IF a.enabled_tools[i].kind = "str"
                                 THEN Leaf(ToolNameTok(a.enabled_tools[i].name))
                                 ELSE DumpTool(a.enabled_tools[i])]),
              model |-> DumpModel(a.model)])]

\* invoke() that never attempts the lazy initialize.
invoke_needs_init_never(a) == FALSE

\* invoke(): the lazy initialize is attempted when the session is not
\* initialized or holds no agent.
invoke_needs_init(a) == ~a.is_initialized \/ a.agent = NoAgent

\* get_status(): the dict the status query returns.
get_status(a) ==
    [enabled |-> a.is_enabled, initialized |-> a.is_initialized,
     has_agent |-> a.agent # NoAgent, model |-> a.model.name, tools |-> a.enabled_tools]

\* ZaloBot.get_status(): the status bits of the dict the query returns;
\* live is the set of threads for which is_alive() holds.
bot_get_status(b, live) ==
    [enabled |-> b.is_enabled, connected |-> b.is_connected,
     listening |-> b.listen_thread # 0 /\ b.listen_thread \in live]

\* d.get(key, dflt)
Get(d, key, dflt) == IF key \in DOMAIN d THEN d[key] ELSE dflt

\* _auto_map_type(): the Python type a declared type name stands for.
auto_map_type(config_type) ==
    CASE config_type = "string" -> "str"
      [] config_type = "number" -> "float"
      [] config_type = "integer" -> "int"
      [] config_type = "boolean" -> "bool"
      [] config_type = "array" -> "list"
      [] config_type = "object" -> "dict"
      [] OTHER -> "str"

\* Python's None, and the default of a Field that was given none.
None == "None"
Undefined == "PydanticUndefined"

\* A field of the model create_model builds from (type, Field(...)):
\* pydantic requires the value of a field that has no default.
SchemaField(type, default) ==
    [type |-> type, required |-> default = Undefined, default |-> default]

\* The field generated for a query parameter: the declared default when
\* it is not None, otherwise no default; the required key is read and
\* not used.
param_field(param_def) ==
    SchemaField(auto_map_type(Get(param_def, "type", "string")),
                IF Get(param_def, "default", None) # None THEN param_def.default ELSE Undefined)

\* The field generated for a body field: no default when required is
\* true, otherwise the default None; the default key is not read.
body_field(body_def) ==
    SchemaField(auto_map_type(Get(body_def, "type", "string")),
                IF Get(body_def, "required", FALSE) THEN Undefined ELSE None)

\* _generate_input_schema(): the fields dict handed to create_model; the
\* body loop runs second and overwrites a parameter of the same name.
generate_input_schema(param_config, body_config) ==
    [name \in DOMAIN param_config \cup DOMAIN body_config |->
        IF name \in DOMAIN body_config THEN body_field(body_config[name])
        ELSE param_field(param_config[name])]

\* The declarations of one field that are tried: each of the keys type,
\* required and default present or absent, the type a known one or not.
DeclaredTypes == {"string", "integer", "uuid"}
WithType(D) == D \cup {d @@ [type |-> t] : d \in D, t \in DeclaredTypes}
WithRequired(D) == D \cup {d @@ [required |-> r] : d \in D, r \in BOOLEAN}
WithDefault(D) == D \cup {d @@ [default |-> "d1"] : d \in D}
FieldDefs == WithDefault(WithRequired(WithType({EmptyDict})))

\* The input sections that are tried: at most one query parameter "q" and
\* at most one body field, named "q" too or "b".
ToolConfigs ==
    [param : {EmptyDict} \cup {[q |-> d] : d \in FieldDefs},
     body : {EmptyDict} \cup {[q |-> d] : d \in FieldDefs} \cup {[b |-> d] : d \in FieldDefs}]

\* No descriptor is being built, and no schema has been generated.
NoToolConfig == [param |-> EmptyDict, body |-> EmptyDict]
NoSchema == [built |-> FALSE, fields |-> EmptyDict]

\* The mac header of a webhook request: absent, not the HMAC-SHA256 digest
\* of the body under the secret key, or that digest.
Macs == {"missing", "wrong", "valid"}

\* The payloads of a webhook request: the two events the handler acts on,
\* one it has no branch for, and a payload without event_name or sender id.
HookEvents == {"user_send_text", "user_follow_oa", "user_send_image", "invalid"}

\* No webhook request has arrived.
NoHook ==
    [endpoint |-> "none", mac |-> "none", event |-> "none", status |-> "none",
     invoked |-> FALSE, sent |-> FALSE]

\* verify_signature(body, mac) as zalo_webhook calls it, with the bytes of
\* request.body(): False without a mac; otherwise body.encode() raises
\* AttributeError, bytes having no encode.
verify_signature(mac) == IF mac = "missing" THEN "False" ELSE "raised"

\* No invoke() call is in progress and none has returned yet.
NoInvoke == [pc |-> "idle", attempts |-> 0, model_invoked |-> FALSE, result |-> "none"]

\* The values update_config is called with here: a list of tool names, as
\* in test_agent_config.py, and a prompt. None carries the enabled key (a
\* change of the flag goes through handle_enabled_state_change).
ConfigDatas == {[tools |-> <<ToolName("google_search")>>], [prompt |-> "p0"]}

\* The bodies of PATCH /api/config/ that set the enabled flag of the agent
\* section, as a JSON boolean.
FlagPatches == {[agent_config |-> Dict([enabled |-> Leaf(BoolTok(e))])] : e \in BOOLEAN}

\* The bodies of PATCH /api/config/ sent here, all on the agent section: the
\* flag alone, a prompt, a temperature, the flag with a prompt or with a
\* temperature, and a flag that fails validation.
ConfigPatches ==
    FlagPatches
    \cup {PatchPrompt,
          [agent_config |-> Dict([model |-> Dict([temperature |-> Leaf("n:1")])])],
          [agent_config |-> Dict([enabled |-> Leaf("false"), system_prompt |-> Leaf("s:p1")])],
          [agent_config |-> Dict([enabled |-> Leaf("true"),
                                  model |-> Dict([temperature |-> Leaf("n:1")])])],
          PatchBadBool}

\* update_config: the local values after the keys of config_data are copied.
update_local(a, config_data) ==
    [a EXCEPT !.prompt = IF "prompt" \in DOMAIN config_data THEN config_data.prompt ELSE @,
              !.enabled_tools = IF "tools" \in DOMAIN config_data THEN config_data.tools ELSE @,
              !.model = IF "model" \in DOMAIN config_data
                        THEN [f \in DOMAIN @ |->
                                 IF f \in DOMAIN config_data.model THEN config_data.model[f] ELSE @[f]]
                        ELSE @]

\* Settings with two enabled tool descriptors.
TwoTools == <<[name |-> "google_search", enabled |-> TRUE], [name |-> "scraper_content", enabled |-> TRUE]>>

\* The settings the sessions under settings updates are started on: the
\* agent enabled or not, with no tool descriptor or with two.
ConfigSettings ==
    {[DefaultSettings EXCEPT !.agent_config.enabled = e, !.agent_config.tools = t] :
        e \in BOOLEAN, t \in {<<>>, TwoTools}}

\* Every settings value the sessions are started on: each agent section
\* with the bot disabled, and the default agent section with the bot enabled.
LifeSettings ==
    {[agent_config |-> [enabled |-> e, system_prompt |-> "p0", tools |-> t, model |-> DefaultModel],
      zalo_config |-> DefaultZaloConfig] :
        e \in BOOLEAN,
        t \in {<<>>, <<[name |-> "google_search", enabled |-> FALSE]>>, TwoTools}}
    \cup {[DefaultSettings EXCEPT !.zalo_config.personal.enabled = TRUE]}

\* A message text: whether it starts with "!", and the words that follow.
Text(bang, parts) == [bang |-> bang, parts |-> parts]

\* The message texts delivered: "", "hello", "!", "!help", "!ECHO",
\* "!echo hi there", "!info" and "!nope x".
Texts ==
    {Text(FALSE, <<>>), Text(FALSE, <<"hello">>), Text(TRUE, <<>>), Text(TRUE, <<"help">>),
     Text(TRUE, <<"ECHO">>), Text(TRUE, <<"echo", "hi", "there">>), Text(TRUE, <<"info">>),
     Text(TRUE, <<"nope", "x">>)}

\* A reply is the sequence of its words; the empty string has none.
FALLBACK_RESPONSE == <<"FALLBACK_RESPONSE">>

\* str.lower() on the command words used.
lower(w) == IF w = "ECHO" THEN "echo" ELSE w

\* The commands ZaloMessageHandler registers.
commands == {"help", "echo", "info"}

\* HelpCommand, EchoCommand and InfoCommand: execute(message_data, args).
execute(command, args) ==
    IF command = "help" THEN <<"Available commands:", "!help", "!echo", "!info">>
    ELSE IF command = "echo" THEN (IF args # <<>> THEN args ELSE <<"Echo what?">>)
    ELSE <<"{thread_id, thread_type, author_id, timestamp}">>

\* handle_command(message_data): the words after "!" name the command.
handle_command(text) ==
    IF text.parts = <<>>
    THEN <<"Please specify a command after '!'.">>
    ELSE LET command == lower(Head(text.parts))
             args == Tail(text.parts)
         IN IF command \in commands THEN execute(command, args)
            ELSE <<"Unknown command:", command, "Type !help for available commands.">>

\* What the compiled agent may answer: a dict whose messages list is
\* empty, ends with a message with or without a content attribute, with
\* empty or non-empty content; or an empty dict.
AgentAnswers ==
    {[messages |-> <<>>],
     [messages |-> <<[content |-> <<"hello">>], [content |-> <<"hi", "there">>]>>],
     [messages |-> <<[content |-> <<"hello">>], [content |-> <<>>]>>],
     [messages |-> <<[type |-> "remove"]>>],
     [k \in {} |-> <<>>]}

\* The content of the last message of the agent's reply, "" when the
\* reply has no messages or the message no content.
agent_response(response) ==
    IF DOMAIN response # {} /\ "messages" \in DOMAIN response /\ response.messages # <<>>
    THEN LET last_message == response.messages[Len(response.messages)]
         IN IF "content" \in DOMAIN last_message THEN last_message.content ELSE <<>>
    ELSE <<>>

\* handle_normal_message without its check for an empty agent response.
handle_normal_message_unchecked(response) == agent_response(response)

\* handle_normal_message(message_data), given what agent_advisor.invoke
\* returned: an empty agent response is replaced by the fallback.
handle_normal_message(response) ==
    IF agent_response(response) = <<>> THEN FALLBACK_RESPONSE ELSE agent_response(response)

\* process_message(message_data): a text starting with "!" is a command,
\* any other goes to the agent.
process_message(text, response) ==
    IF text.bang THEN handle_command(text) ELSE handle_normal_message(response)

\* Nothing has been delivered yet.
NoMsg ==
    [kind |-> "none", n |-> 0, text |-> Text(FALSE, <<>>), own |-> FALSE, dropped |-> FALSE,
     activity |-> FALSE, handled |-> FALSE, agent |-> "none", reply |-> <<>>, sent |-> FALSE]

\* Bound on the changes published to the AppConfigStore.
MaxEvents == 2

\* The scopes changes are published under, and the scopes a callback can
\* subscribe to.
Scopes == {"agents.a", "zalo"}
SubscriberScopes == Scopes \cup {"*"}

\* The subscriber callbacks.
Callbacks == {"cb1", "cb2"}

\* AppConfigStore.__init__: no subscriber, an empty event queue, not
\* running. changes counts the changes made to the in-memory sections,
\* saved those the config file holds; event n is "none" before it is
\* published, then "queued", then "done" once the worker delivered it to all
\* its subscribers and saved, or "failed" once the worker dropped it.
NewStore ==
    [running |-> FALSE, worker |-> "none",
     subscribers |-> [k \in SubscriberScopes |-> <<>>],
     event_q |-> <<>>, changes |-> 0, saved |-> 0,
     event |-> [n \in 1..MaxEvents |-> "none"],
     got |-> [cb \in Callbacks |-> <<>>],
     missed |-> {}]

\* The fan-out of _worker for one event: the callbacks of the scope, then
\* those of "*", in subscription order.
fan_out(subscribers, scope) == subscribers[scope] \o subscribers["*"]

\* The callbacks called for an event: all of them when none raises,
\* otherwise those up to the first that raises.
called(cbs, raising) ==
    IF \E i \in 1..Len(cbs) : cbs[i] \in raising
    THEN SubSeq(cbs, 1, CHOOSE i \in 1..Len(cbs) :
                            /\ cbs[i] \in raising
                            /\ \A j \in 1..(i - 1) : cbs[j] \notin raising)
    ELSE cbs

\* No call has been made on a session yet.
NoCall ==
    [op |-> "none", ret |-> FALSE, ok |-> FALSE, was_enabled |-> FALSE,
     was_ready |-> FALSE, handle |-> 0, allocated |-> 0, spawned |-> 0]

VARIABLES
    settings,    \* ConfigManager.settings, the in-memory AppSettings
    file,        \* data/app_config.json
    tmp,         \* data/app_config.tmp.json
    lock,        \* holder of ConfigManager._save_lock, or NoProc
    waiters,     \* coroutines queued on _save_lock, in arrival order
    pc,          \* position of each caller: "idle" before its update() call,
                 \* "wait" | "open" | "write" | "flush" | "close" inside save(),
                 \* "returned" | "raised" once the call has ended
    buf,         \* the text each caller handed to f.write
    patch,       \* the patch of each caller's latest update() call
    merged_data, \* the merged dict of the latest update() call
    conc,        \* callers whose update() overlapped the caller's call
    touched,     \* a patch on a common path was applied after the caller's
    written,     \* save() has replaced the config file at least once
    phase,       \* "boot" until load() ran or was skipped, then "run"
    loadResult,  \* "none" | "ok" | "raised"
    advisor,     \* the AgentAdvisor instance agent_advisor
    bot,         \* the ZaloBot instance
    started,     \* which of "advisor", "bot" have been constructed
    allocs,      \* number of LLM objects constructed so far
    logins,      \* number of Zalo logins made so far
    closed,      \* per LLM object, how often its client was closed
    logouts,     \* per Zalo session, how often it was logged out
    last,        \* the latest call made on a session
    inv,         \* the invoke() call in progress or last returned
    alive,       \* the listener threads that are running
    threads,     \* number of listener threads created so far
    reload,      \* "idle", or "init" between the shutdown() and the
                 \* initialize() of reload_agent
    api_key,     \* a non-empty GROQ_API_KEY is set in the environment or the
                 \* settings
    tool_config, \* the input section of a tool descriptor
    args_schema, \* the input schema generated from it
    hook,        \* the latest webhook request and what its handler did
    request,     \* the body of the latest PATCH /api/config/ request
    msg,         \* the latest message or event the listener delivered and
                 \* what the bot did with it
    store        \* the AppConfigStore: its worker, subscribers and event queue

\* The state of the ConfigManager and of its callers.
storeVars == <<settings, file, tmp, lock, waiters, pc, buf, patch, merged_data, conc,
               touched, written, phase, loadResult>>

\* The state of the two sessions.
lifeVars == <<advisor, bot, started, allocs, logins, closed, logouts, last, inv, alive, threads>>

\* The state of a configurable tool under construction.
toolVars == <<tool_config, args_schema>>

\* The state of the inbound edges: webhook and PATCH requests.
edgeVars == <<hook, request, msg, store>>

vars == <<storeVars, lifeVars, reload, api_key, toolVars, edgeVars>>

\* No session has been constructed.
LifeIdle ==
    /\ advisor = NewAdvisor
    /\ bot = NewBot
    /\ started = {}
    /\ allocs = 0
    /\ logins = 0
    /\ closed = [h \in 1..MaxHandles |-> 0]
    /\ logouts = [h \in 1..MaxHandles |-> 0]
    /\ last = NoCall
    /\ inv = NoInvoke
    /\ alive = {}
    /\ threads = 0
    /\ reload = "idle"

\* No configurable tool is under construction.
ToolIdle ==
    /\ tool_config = NoToolConfig
    /\ args_schema = NoSchema

\* No inbound request has arrived.
EdgeIdle ==
    /\ hook = NoHook
    /\ request = EmptyDict
    /\ msg = NoMsg
    /\ store = NewStore

\* State right after ConfigManager.__init__: settings = AppSettings(),
\* a fresh unlocked asyncio.Lock, nobody inside update().
Idle ==
    /\ tmp = Absent
    /\ lock = NoProc
    /\ waiters = <<>>
    /\ pc = [p \in Procs |-> "idle"]
    /\ buf = [p \in Procs |-> <<>>]
    /\ patch = [p \in Procs |-> PatchEmpty]
    /\ merged_data = EmptyDict
    /\ conc = [p \in Procs |-> {}]
    /\ touched = [p \in Procs |-> FALSE]
    /\ written = FALSE
    /\ loadResult = "none"

Init ==
    /\ settings = DefaultSettings
    /\ file \in InitFiles
    /\ phase = "boot"
    /\ Idle
    /\ LifeIdle
    /\ api_key = TRUE
    /\ ToolIdle
    /\ EdgeIdle

\* ConfigManager.load(): a missing, empty or unparseable file yields {}.
LoadedDict(f) ==
    IF f.exists /\ Len(f.text) > 0 /\ JsonOk(f.text) THEN json_loads(f.text) ELSE EmptyDict

\* load(): the dict read from the file is validated outside the try block,
\* so a validation error propagates to the caller.
Load ==
    /\ UNCHANGED lifeVars
    /\ phase = "boot"
    /\ phase' = "run"
    /\ IF ValidationOk(LoadedDict(file))
       THEN /\ settings' = model_validate(LoadedDict(file))
            /\ loadResult' = "ok"
       ELSE /\ loadResult' = "raised"
            /\ UNCHANGED settings
    /\ UNCHANGED <<file, tmp, lock, waiters, pc, buf, patch, merged_data, conc, touched, written>>
    /\ UNCHANGED <<reload, api_key, toolVars, edgeVars>>

\* The application (main.py) never calls load(): it runs on AppSettings().
SkipLoad ==
    /\ UNCHANGED lifeVars
    /\ phase = "boot"
    /\ phase' = "run"
    /\ UNCHANGED <<settings, file, tmp, lock, waiters, pc, buf, patch, merged_data,
                   conc, touched, written, loadResult>>
    /\ UNCHANGED <<reload, api_key, toolVars, edgeVars>>

\* Callers that are inside update()/save().
InFlight == {q \in Procs : pc[q] \in {"wait", "open", "write", "flush", "close"}}

\* The base of the merge, were it read back from the config file.
updated_settings_data_from_file == LoadedDict(file)

\* updated_settings_data = self.settings.model_dump()
updated_settings_data == model_dump(settings)

\* A rejected update that falls back to the defaults instead of raising clean.
update_rejected_fail_soft(p) ==
    /\ pc' = [pc EXCEPT ![p] = "raised"]
    /\ settings' = DefaultSettings
    /\ UNCHANGED <<lock, waiters, conc, touched>>

\* model_validate raises: update() ends before assigning self.settings.
update_rejected(p) ==
    /\ pc' = [pc EXCEPT ![p] = "raised"]
    /\ UNCHANGED <<settings, lock, waiters, conc, touched>>

\* save() entered without honouring the lock.
enter_save_unlocked(p) ==
    /\ lock' = p
    /\ pc' = [pc EXCEPT ![p] = "open"]
    /\ UNCHANGED waiters

\* async with self._save_lock: taken at once when free and nobody waits,
\* otherwise the caller queues behind the earlier waiters.
enter_save(p) ==
    IF lock = NoProc /\ waiters = <<>>
    THEN /\ lock' = p
         /\ pc' = [pc EXCEPT ![p] = "open"]
         /\ UNCHANGED waiters
    ELSE /\ waiters' = Append(waiters, p)
         /\ pc' = [pc EXCEPT ![p] = "wait"]
         /\ UNCHANGED lock

\* update(data) up to its first suspension: dump, merge, validate, assign,
\* then enter save().
Update(p, data) ==
    /\ UNCHANGED lifeVars
    /\ phase = "run" /\ loadResult # "raised"
    /\ pc[p] = "idle"
    /\ \A q \in Procs : q < p => pc[q] # "idle"
    /\ patch' = [patch EXCEPT ![p] = data]
    /\ merged_data' = merge(updated_settings_data, data)
    /\ IF ~ValidationOk(merged_data')
       THEN update_rejected(p)
       ELSE /\ settings' = model_validate(merged_data')
            /\ conc' = [q \in Procs |->
                          IF q = p THEN InFlight
                          ELSE IF q \in InFlight THEN conc[q] \cup {p} ELSE conc[q]]
            /\ touched' = [q \in Procs |->
                             IF q = p THEN FALSE
                             ELSE touched[q] \/ (pc[q] # "idle" /\ ~Disjoint(data, patch[q]))]
            /\ enter_save(p)
    /\ UNCHANGED <<file, tmp, buf, written, phase, loadResult>>
    /\ UNCHANGED <<reload, api_key, toolVars, edgeVars>>

\* The lock is released to the first waiter.
Acquire(p) ==
    /\ UNCHANGED lifeVars
    /\ pc[p] = "wait"
    /\ lock = NoProc
    /\ waiters # <<>> /\ Head(waiters) = p
    /\ lock' = p
    /\ waiters' = Tail(waiters)
    /\ pc' = [pc EXCEPT ![p] = "open"]
    /\ UNCHANGED <<settings, file, tmp, buf, patch, merged_data, conc,
                   touched, written, phase, loadResult>>
    /\ UNCHANGED <<reload, api_key, toolVars, edgeVars>>

\* aiofiles.open(tmp, "w") returns: tmp is truncated, and f.write is called
\* with the dump of whatever self.settings is now.
OpenTmp(p) ==
    /\ UNCHANGED lifeVars
    /\ pc[p] = "open"
    /\ tmp' = FileOf(<<>>)
    /\ buf' = [buf EXCEPT ![p] = model_dump_json(settings)]
    /\ pc' = [pc EXCEPT ![p] = "write"]
    /\ UNCHANGED <<settings, file, lock, waiters, patch, merged_data, conc, touched, written, phase, loadResult>>
    /\ UNCHANGED <<reload, api_key, toolVars, edgeVars>>

\* Where the written text is cut when it reaches the disk in two pieces.
Half(text) == (Len(text) + 1) \div 2

\* The first piece written straight into the config file.
WritePartInPlace(p) ==
    /\ UNCHANGED lifeVars
    /\ pc[p] = "write"
    /\ file' = FileOf(SubSeq(buf[p], 1, Half(buf[p])))
    /\ pc' = [pc EXCEPT ![p] = "flush"]
    /\ UNCHANGED <<settings, tmp, lock, waiters, buf, patch, merged_data, conc, touched, written, phase, loadResult>>
    /\ UNCHANGED <<reload, api_key, toolVars, edgeVars>>

\* The first piece of the text reaches the temp file.
WritePart(p) ==
    /\ UNCHANGED lifeVars
    /\ pc[p] = "write"
    /\ tmp' = FileOf(SubSeq(buf[p], 1, Half(buf[p])))
    /\ pc' = [pc EXCEPT ![p] = "flush"]
    /\ UNCHANGED <<settings, file, lock, waiters, buf, patch, merged_data, conc, touched, written, phase, loadResult>>
    /\ UNCHANGED <<reload, api_key, toolVars, edgeVars>>

\* The rest of the text reaches the temp file; the write completes.
WriteRest(p) ==
    /\ UNCHANGED lifeVars
    /\ pc[p] = "flush"
    /\ tmp' = FileOf(buf[p])
    /\ pc' = [pc EXCEPT ![p] = "close"]
    /\ UNCHANGED <<settings, file, lock, waiters, buf, patch, merged_data, conc, touched, written, phase, loadResult>>
    /\ UNCHANGED <<reload, api_key, toolVars, edgeVars>>

\* save() that closes the temp file but never renames it over the target.
ReplaceForgotten(p) ==
    /\ UNCHANGED lifeVars
    /\ pc[p] = "close"
    /\ lock' = NoProc
    /\ pc' = [pc EXCEPT ![p] = "returned"]
    /\ UNCHANGED <<settings, file, tmp, written, waiters, buf, patch, merged_data,
                   conc, touched, phase, loadResult>>
    /\ UNCHANGED <<reload, api_key, toolVars, edgeVars>>

\* The file is closed, tmp.replace(self._file) renames it over the target,
\* the lock is released and update() returns self.settings.
Replace(p) ==
    /\ UNCHANGED lifeVars
    /\ pc[p] = "close"
    /\ file' = tmp
    /\ tmp' = Absent
    /\ written' = TRUE
    /\ lock' = NoProc
    /\ pc' = [pc EXCEPT ![p] = "returned"]
    /\ UNCHANGED <<settings, waiters, buf, patch, merged_data, conc, touched,
                   phase, loadResult>>
    /\ UNCHANGED <<reload, api_key, toolVars, edgeVars>>

\* A file operation of save() raises: the except branch prints the error,
\* the lock is released and update() still returns self.settings.
SaveFails(p) ==
    /\ UNCHANGED lifeVars
    /\ pc[p] \in {"open", "write", "flush", "close"}
    /\ lock' = NoProc
    /\ pc' = [pc EXCEPT ![p] = "returned"]
    /\ UNCHANGED <<settings, file, tmp, written, waiters, buf, patch, merged_data,
                   conc, touched, phase, loadResult>>
    /\ UNCHANGED <<reload, api_key, toolVars, edgeVars>>

Next ==
    \/ Load
    \/ SkipLoad
    \/ \E p \in Procs, data \in Patches : Update(p, data)
    \/ \E p \in Procs : Acquire(p)
    \/ \E p \in Procs : OpenTmp(p)
    \/ \E p \in Procs : WritePart(p)
    \/ \E p \in Procs : WriteRest(p)
    \/ \E p \in Procs : Replace(p)

\* Concurrent update() calls on the event loop, file operations succeed.
Spec == Init /\ [][Next]_vars

\* The same program on a file system whose operations may fail.
NextFault == Next \/ \E p \in Procs : SaveFails(p)

SpecFault == Init /\ [][NextFault]_vars

\* One caller runs update() to completion, from every settings value and
\* with every patch of the bounded shape.
InitPure ==
    /\ settings \in AllSettings
    /\ file \in {Absent, FileOf(model_dump_json(settings))}
    /\ phase = "run"
    /\ Idle
    /\ LifeIdle
    /\ api_key = TRUE
    /\ ToolIdle
    /\ EdgeIdle

NextPure ==
    \/ \E data \in AllPatches : Update(1, data)
    \/ OpenTmp(1)
    \/ WritePart(1)
    \/ WriteRest(1)
    \/ Replace(1)

SpecPure == InitPure /\ [][NextPure]_vars

\* ------------------------------------------------------------------------
\* Session lifecycle: calls on the AgentAdvisor and the ZaloBot
\* ------------------------------------------------------------------------
\* The record of a call: its name, what it returned, whether the external
\* service it needed answered, and the session as the call found it.
CallRecord(op, ret, ok, was_enabled, was_ready, handle, allocated) ==
    [op |-> op, ret |-> ret, ok |-> ok, was_enabled |-> was_enabled,
     was_ready |-> was_ready, handle |-> handle, allocated |-> allocated, spawned |-> 0]

\* agent_advisor = AgentAdvisor(): load_config(), then initialize() when
\* the settings enable the agent.
AdvisorInit ==
    /\ "advisor" \notin started
    /\ allocs < MaxHandles
    /\ started' = started \cup {"advisor"}
    /\ \E outcome \in LLMOutcomes(api_key), react_ok \in BOOLEAN :
         LET r == initialize(load_config(NewAdvisor, settings), outcome, react_ok, allocs + 1)
         IN /\ advisor' = r.a
            /\ allocs' = allocs + r.allocated
            /\ last' = CallRecord("AgentAdvisor", r.ret, outcome # "raise",
                                  settings.agent_config.enabled, FALSE, 0, r.allocated)
    /\ UNCHANGED <<bot, logins, closed, logouts, inv, alive, threads>>
    /\ UNCHANGED storeVars
    /\ UNCHANGED <<reload, api_key, toolVars, edgeVars>>

\* agent_advisor.initialize()
Initialize ==
    /\ "advisor" \in started
    /\ allocs < MaxHandles
    /\ \E outcome \in LLMOutcomes(api_key), react_ok \in BOOLEAN :
         LET r == initialize(advisor, outcome, react_ok, allocs + 1)
         IN /\ advisor' = r.a
            /\ allocs' = allocs + r.allocated
            /\ last' = CallRecord("initialize", r.ret, outcome # "raise", advisor.is_enabled,
                                  advisor.is_initialized, advisor.llm.id, r.allocated)
    /\ UNCHANGED <<bot, logins, closed, logouts, started, inv, alive, threads>>
    /\ UNCHANGED storeVars
    /\ UNCHANGED <<reload, api_key, toolVars, edgeVars>>

\* agent_advisor.shutdown()
Shutdown ==
    /\ "advisor" \in started
    /\ advisor' = shutdown(advisor)
    /\ closed' = IF ClosesClient(advisor)
                 THEN [closed EXCEPT ![advisor.llm.id] = @ + 1]
                 ELSE closed
    /\ last' = CallRecord("shutdown", TRUE, TRUE, advisor.is_enabled,
                          advisor.is_initialized, advisor.llm.id, 0)
    /\ UNCHANGED <<bot, allocs, logins, logouts, started, inv, alive, threads>>
    /\ UNCHANGED storeVars
    /\ UNCHANGED <<reload, api_key, toolVars, edgeVars>>

\* ZaloBot(phone, password, imei, cookies): the enabled flag is read from
\* the settings, and the bot connects when it is set.
BotInit ==
    /\ "bot" \notin started
    /\ logins < MaxHandles
    /\ started' = started \cup {"bot"}
    /\ \E login_ok \in BOOLEAN :
         LET b0 == [NewBot EXCEPT !.is_enabled = settings.zalo_config.personal.enabled]
             r == IF b0.is_enabled THEN connect(b0, login_ok, logins + 1)
                  ELSE [b |-> b0, ret |-> FALSE, allocated |-> 0]
         IN /\ bot' = r.b
            /\ logins' = logins + r.allocated
            /\ last' = CallRecord("ZaloBot", r.ret, login_ok, b0.is_enabled, FALSE, 0, r.allocated)
    /\ UNCHANGED <<advisor, allocs, closed, logouts, inv, alive, threads>>
    /\ UNCHANGED storeVars
    /\ UNCHANGED <<reload, api_key, toolVars, edgeVars>>

\* bot.connect()
Connect ==
    /\ "bot" \in started
    /\ logins < MaxHandles
    /\ \E login_ok \in BOOLEAN :
         LET r == connect(bot, login_ok, logins + 1)
         IN /\ bot' = r.b
            /\ logins' = logins + r.allocated
            /\ last' = CallRecord("connect", r.ret, login_ok, bot.is_enabled,
                                  bot.is_connected, bot.session, r.allocated)
    /\ UNCHANGED <<advisor, allocs, closed, logouts, started, inv, alive, threads>>
    /\ UNCHANGED storeVars
    /\ UNCHANGED <<reload, api_key, toolVars, edgeVars>>

\* bot.disconnect()
Disconnect ==
    /\ "bot" \in started
    /\ \E logout_ok \in BOOLEAN :
         LET r == disconnect(bot, logout_ok)
         IN /\ bot' = r.b
            /\ logouts' = IF bot.is_connected /\ logout_ok
                          THEN [logouts EXCEPT ![bot.session] = @ + 1]
                          ELSE logouts
            /\ last' = CallRecord("disconnect", r.ret, logout_ok, bot.is_enabled,
                                  bot.is_connected, bot.session, 0)
    /\ UNCHANGED <<advisor, allocs, logins, closed, started, inv, alive, threads>>
    /\ UNCHANGED storeVars
    /\ UNCHANGED <<reload, api_key, toolVars, edgeVars>>

\* The sessions on every settings value, the settings held fixed.
InitLifecycle ==
    /\ settings \in AllSettings
    /\ file = Absent
    /\ phase = "run"
    /\ Idle
    /\ LifeIdle
    /\ api_key = TRUE
    /\ ToolIdle
    /\ EdgeIdle

NextLifecycle ==
    \/ AdvisorInit
    \/ Initialize
    \/ Shutdown
    \/ BotInit
    \/ Connect
    \/ Disconnect

SpecLifecycle == InitLifecycle /\ [][NextLifecycle]_vars

\* The name under which handle_enabled_state_change(new_state) is recorded.
HandleOp(new_state) ==
    IF new_state THEN "handle_enabled_state_change(True)" ELSE "handle_enabled_state_change(False)"

\* await config_manager.update(data) made by a session while no other
\* update is in progress: merge, validate, assign and save run to the end.
\* A merged dict that fails validation raises and changes nothing.
StoreUpdate(data) ==
    /\ merged_data' = merge(updated_settings_data, data)
    /\ IF ValidationOk(merged_data')
       THEN /\ settings' = model_validate(merged_data')
            /\ file' = FileOf(model_dump_json(settings'))
            /\ written' = TRUE
       ELSE UNCHANGED <<settings, file, written>>
    /\ UNCHANGED <<tmp, lock, waiters, pc, buf, patch, conc, touched, phase, loadResult>>

\* Does config_manager.update(data) return (rather than raise)?
StoreAccepts(data) == ValidationOk(merge(updated_settings_data, data))

\* handle_enabled_state_change that acts without comparing the flags.
handle_always(a, new_state) == TRUE

\* handle_enabled_state_change(new_state) has work to do only when the
\* flag changes.
handle_changes(a, new_state) == new_state # a.is_enabled

\* config_manager.update(data) on the settings S while no other update is in
\* progress: the settings after it, and whether it returned (a merged dict
\* that fails validation raises and changes nothing).
store_update(S, data) ==
    LET merged == merge(model_dump(S), data)
    IN IF ValidationOk(merged)
       THEN [settings |-> model_validate(merged), ok |-> TRUE]
       ELSE [settings |-> S, ok |-> FALSE]

\* handle_enabled_state_change(new_state) as a function of the session and
\* the settings: the session and the settings after the call, whether
\* _save_config raised, how many LLM objects were constructed and whether
\* the client of the old one was closed.
handle_enabled_state_change(a, S, new_state, outcome, react_ok, id) ==
    IF ~handle_changes(a, new_state)
    THEN [a |-> a, settings |-> S, raised |-> FALSE, saved |-> FALSE, allocated |-> 0, closes |-> FALSE]
    ELSE LET a1 == [a EXCEPT !.is_enabled = new_state]
             r == IF new_state
                  THEN initialize(a1, outcome, react_ok, id)
                  ELSE [a |-> shutdown(a1), ret |-> TRUE, allocated |-> 0]
             u == store_update(S, save_config_patch(r.a))
         IN [a |-> r.a, settings |-> u.settings, raised |-> ~u.ok, saved |-> u.ok,
             allocated |-> r.allocated, closes |-> ~new_state /\ ClosesClient(a1)]

\* agent_advisor.handle_enabled_state_change(new_state): nothing when the
\* flag is unchanged; otherwise the flag is set, the session initialized or
\* shut down, and the configuration saved.
AdvisorHandleEnabled(new_state) ==
    /\ "advisor" \in started
    /\ allocs < MaxHandles
    /\ IF ~handle_changes(advisor, new_state)
       THEN /\ last' = CallRecord(HandleOp(new_state), TRUE, TRUE, advisor.is_enabled,
                                  advisor.is_initialized, advisor.llm.id, 0)
            /\ UNCHANGED <<advisor, allocs, closed>>
            /\ UNCHANGED storeVars
       ELSE \E outcome \in LLMOutcomes(api_key), react_ok \in BOOLEAN :
              LET a1 == [advisor EXCEPT !.is_enabled = new_state]
                  r == IF new_state
                       THEN initialize(a1, outcome, react_ok, allocs + 1)
                       ELSE [a |-> shutdown(a1), ret |-> TRUE, allocated |-> 0]
              IN /\ advisor' = r.a
                 /\ allocs' = allocs + r.allocated
                 /\ closed' = IF ~new_state /\ ClosesClient(a1)
                              THEN [closed EXCEPT ![a1.llm.id] = @ + 1]
                              ELSE closed
                 /\ StoreUpdate(save_config_patch(r.a))
                 /\ last' = CallRecord(HandleOp(new_state), StoreAccepts(save_config_patch(r.a)),
                                       outcome # "raise", advisor.is_enabled,
                                       advisor.is_initialized, advisor.llm.id, r.allocated)
    /\ UNCHANGED <<bot, started, logins, logouts, inv, alive, threads>>
    /\ UNCHANGED <<reload, api_key, toolVars, edgeVars>>

\* agent_advisor.update_config(config_data): the keys of config_data are
\* copied, the configuration is saved, and a Ready session is shut down
\* and initialized again. An update the store rejects raises and ends the
\* call before the rebuild.
UpdateConfig(config_data) ==
    /\ "advisor" \in started
    /\ allocs < MaxHandles
    /\ \E outcome \in LLMOutcomes(api_key), react_ok \in BOOLEAN :
         LET a2 == update_local(advisor, config_data)
             saved == StoreAccepts(save_config_patch(a2))
             rebuild == saved /\ a2.is_enabled /\ a2.is_initialized
             r == IF rebuild
                  THEN initialize(shutdown(a2), outcome, react_ok, allocs + 1)
                  ELSE [a |-> a2, ret |-> TRUE, allocated |-> 0]
         IN /\ advisor' = r.a
            /\ allocs' = allocs + r.allocated
            /\ closed' = IF rebuild /\ ClosesClient(a2)
                         THEN [closed EXCEPT ![a2.llm.id] = @ + 1]
                         ELSE closed
            /\ StoreUpdate(save_config_patch(a2))
            /\ last' = CallRecord("update_config", saved, outcome # "raise", advisor.is_enabled,
                                  advisor.is_initialized, advisor.llm.id, r.allocated)
    /\ UNCHANGED <<bot, started, logins, logouts, inv, alive, threads>>
    /\ UNCHANGED <<reload, api_key, toolVars, edgeVars>>

\* invoke(): it goes on to call the agent when no initialize was needed or
\* the lazy initialize returned True.
invoke_goes_on(a, ret) == ~invoke_needs_init(a) \/ ret

\* invoke(messages), up to the try block: a disabled session answers at
\* once; a session that is not initialized is initialized, and a failure
\* of that answers at once.
InvokeBegin ==
    /\ "advisor" \in started
    /\ allocs < MaxHandles
    /\ inv.pc = "idle"
    /\ \E outcome \in LLMOutcomes(api_key), react_ok \in BOOLEAN :
         LET r == IF advisor.is_enabled /\ invoke_needs_init(advisor)
                  THEN initialize(advisor, outcome, react_ok, allocs + 1)
                  ELSE [a |-> advisor, ret |-> FALSE, allocated |-> 0]
             attempts == IF advisor.is_enabled /\ invoke_needs_init(advisor) THEN 1 ELSE 0
         IN /\ advisor' = r.a
            /\ allocs' = allocs + r.allocated
            /\ inv' = IF ~advisor.is_enabled
                      THEN [pc |-> "idle", attempts |-> 0, model_invoked |-> FALSE,
                            result |-> "disabled"]
                      ELSE IF invoke_goes_on(advisor, r.ret)
                      THEN [pc |-> "call", attempts |-> attempts, model_invoked |-> FALSE,
                            result |-> "none"]
                      ELSE [pc |-> "idle", attempts |-> attempts, model_invoked |-> FALSE,
                            result |-> "not initialized"]
            /\ last' = CallRecord("invoke", r.ret, outcome # "raise", advisor.is_enabled,
                                  advisor.is_initialized /\ advisor.agent # NoAgent,
                                  advisor.llm.id, r.allocated)
    /\ UNCHANGED <<bot, started, logins, closed, logouts, alive, threads>>
    /\ UNCHANGED storeVars
    /\ UNCHANGED <<reload, api_key, toolVars, edgeVars>>

\* invoke(messages) on the listener thread, up to the try block of the
\* initialize() it may call: the enabled check of invoke, and for a session
\* that is not Ready the two checks of initialize().
InvokeChecks ==
    /\ "advisor" \in started
    /\ inv.pc = "idle"
    /\ inv' = IF ~advisor.is_enabled
              THEN [pc |-> "idle", attempts |-> 0, model_invoked |-> FALSE, result |-> "disabled"]
              ELSE IF ~invoke_needs_init(advisor) \/ advisor.is_initialized
              THEN [pc |-> "call", attempts |-> IF invoke_needs_init(advisor) THEN 1 ELSE 0,
                    model_invoked |-> FALSE, result |-> "none"]
              ELSE [pc |-> "init", attempts |-> 1, model_invoked |-> FALSE, result |-> "none"]
    /\ last' = CallRecord("invoke", FALSE, TRUE, advisor.is_enabled,
                          advisor.is_initialized /\ advisor.agent # NoAgent, advisor.llm.id, 0)
    /\ UNCHANGED <<advisor, bot, started, allocs, logins, closed, logouts, alive, threads>>
    /\ UNCHANGED storeVars
    /\ UNCHANGED <<reload, api_key, toolVars, edgeVars>>

\* The try block of the initialize() that invoke() called, on the listener
\* thread. Requests handled on the event loop may have run since the
\* checks.
InvokeInitialize ==
    /\ inv.pc = "init"
    /\ allocs < MaxHandles
    /\ \E outcome \in LLMOutcomes(api_key), react_ok \in BOOLEAN :
         LET r == initialize_body(advisor, outcome, react_ok, allocs + 1)
         IN /\ advisor' = r.a
            /\ allocs' = allocs + r.allocated
            /\ inv' = IF r.ret THEN [inv EXCEPT !.pc = "call"]
                      ELSE [inv EXCEPT !.pc = "idle", !.result = "not initialized"]
            /\ last' = [last EXCEPT !.ret = r.ret, !.ok = outcome # "raise",
                                    !.allocated = r.allocated]
    /\ UNCHANGED <<bot, started, logins, closed, logouts, alive, threads>>
    /\ UNCHANGED storeVars
    /\ UNCHANGED <<reload, api_key, toolVars, edgeVars>>

\* The try block of invoke() without its except clause: an exception of
\* the agent call reaches the caller.
invoke_reply_uncaught(a, agent_ok) ==
    IF a.agent.kind = "react" /\ agent_ok THEN "response" ELSE "raised"

\* The try block of invoke(): self.agent.invoke(input_data) answers, or
\* the exception it raises (None and the mock function have no invoke
\* attribute) is turned into an error reply.
invoke_reply(a, agent_ok) ==
    IF a.agent.kind = "react" /\ agent_ok THEN "response" ELSE "error"

\* invoke(messages) as one call: the reply dict of a disabled session, of
\* a failed lazy initialize(), of an agent call that raised, or the
\* answer of the agent.
invoke(a, outcome, react_ok, agent_ok, answer, id) ==
    LET needs == a.is_enabled /\ invoke_needs_init(a)
        r == IF needs THEN initialize(a, outcome, react_ok, id)
             ELSE [a |-> a, ret |-> FALSE, allocated |-> 0]
        result == IF ~a.is_enabled THEN "disabled"
                  ELSE IF ~invoke_goes_on(a, r.ret) THEN "not initialized"
                  ELSE invoke_reply(r.a, agent_ok)
    IN [a |-> r.a, allocated |-> r.allocated, attempts |-> IF needs THEN 1 ELSE 0,
        result |-> result,
        response |-> IF result = "response" THEN answer ELSE [output |-> result]]

\* invoke(messages), the try block. Other calls on the session may have
\* run since the checks (invoke runs on the listener's thread).
InvokeCall ==
    /\ inv.pc = "call"
    /\ \E agent_ok \in BOOLEAN :
         inv' = [inv EXCEPT !.pc = "idle",
                            !.model_invoked = advisor.agent.kind = "react",
                            !.result = invoke_reply(advisor, agent_ok)]
    /\ UNCHANGED <<advisor, bot, started, allocs, logins, closed, logouts, last, alive, threads>>
    /\ UNCHANGED storeVars
    /\ UNCHANGED <<reload, api_key, toolVars, edgeVars>>

\* The name under which the bot's handle_enabled_state_change is recorded.
BotHandleOp(new_state) ==
    IF new_state THEN "ZaloBot.handle_enabled_state_change(True)"
    ELSE "ZaloBot.handle_enabled_state_change(False)"

\* The bot's handle_enabled_state_change has work to do only when the flag
\* changes.
bot_handle_changes(b, new_state) == new_state # b.is_enabled

\* bot.handle_enabled_state_change(new_state): nothing when the flag is
\* unchanged; otherwise the flag is set and the bot connects and starts
\* listening, or disconnects.
BotHandleEnabled(new_state) ==
    /\ "bot" \in started
    /\ logins < MaxHandles /\ threads < MaxHandles
    /\ IF ~bot_handle_changes(bot, new_state)
       THEN /\ last' = CallRecord(BotHandleOp(new_state), TRUE, TRUE, bot.is_enabled,
                                  bot.is_connected, bot.session, 0)
            /\ UNCHANGED <<bot, logins, logouts, alive, threads>>
       ELSE \E env_ok \in BOOLEAN :
              LET b1 == [bot EXCEPT !.is_enabled = new_state]
                  c == connect(b1, env_ok, logins + 1)
                  s == IF c.ret THEN start_listening(c.b, alive, env_ok, logins + 1, threads + 1)
                       ELSE [b |-> c.b, ret |-> FALSE, allocated |-> 0, spawned |-> 0]
                  d == disconnect(b1, env_ok)
              IN /\ bot' = IF new_state THEN s.b ELSE d.b
                 /\ logins' = IF new_state THEN logins + c.allocated ELSE logins
                 /\ threads' = IF new_state THEN threads + s.spawned ELSE threads
                 /\ alive' = IF new_state /\ s.spawned = 1 THEN alive \cup {threads + 1} ELSE alive
                 /\ logouts' = IF ~new_state /\ b1.is_connected /\ env_ok
                               THEN [logouts EXCEPT ![b1.session] = @ + 1]
                               ELSE logouts
                 /\ last' = [CallRecord(BotHandleOp(new_state), TRUE, env_ok, bot.is_enabled,
                                        bot.is_connected, bot.session,
                                        IF new_state THEN c.allocated ELSE 0)
                                EXCEPT !.spawned = IF new_state THEN s.spawned ELSE 0]
    /\ UNCHANGED <<advisor, started, allocs, closed, inv>>
    /\ UNCHANGED storeVars
    /\ UNCHANGED <<reload, api_key, toolVars, edgeVars>>

\* bot.start_listening()
StartListening ==
    /\ "bot" \in started
    /\ logins < MaxHandles /\ threads < MaxHandles
    /\ \E login_ok \in BOOLEAN :
         LET s == start_listening(bot, alive, login_ok, logins + 1, threads + 1)
         IN /\ bot' = s.b
            /\ logins' = logins + s.allocated
            /\ threads' = threads + s.spawned
            /\ alive' = IF s.spawned = 1 THEN alive \cup {threads + 1} ELSE alive
            /\ last' = [CallRecord("start_listening", s.ret, login_ok, bot.is_enabled,
                                   bot.is_connected, bot.session, s.allocated)
                           EXCEPT !.spawned = s.spawned]
    /\ UNCHANGED <<advisor, started, allocs, closed, logouts, inv>>
    /\ UNCHANGED storeVars
    /\ UNCHANGED <<reload, api_key, toolVars, edgeVars>>

\* The listener thread returns from listen() and ends.
ListenerExits ==
    /\ \E t \in alive : alive' = alive \ {t}
    /\ UNCHANGED <<advisor, bot, started, allocs, logins, closed, logouts, last, inv, threads>>
    /\ UNCHANGED storeVars
    /\ UNCHANGED <<reload, api_key, toolVars, edgeVars>>

\* manage_zalo_personal_bot(True): a missing bot is constructed when the
\* credentials are set (the constructor connects when the settings enable
\* the bot); a connected bot starts listening when it has no listener
\* thread, and asking its thread for done() raises (a Thread has no such
\* attribute); a bot that is not connected connects and starts listening.
ManageBotEnable ==
    /\ logins < MaxHandles /\ threads < MaxHandles
    /\ \E has_credentials \in BOOLEAN, login_ok \in BOOLEAN :
         IF "bot" \notin started /\ ~has_credentials
         THEN /\ last' = CallRecord("manage_zalo_personal_bot(True)", TRUE, login_ok,
                                    FALSE, FALSE, 0, 0)
              /\ UNCHANGED <<bot, started, logins, threads, alive>>
         ELSE LET b0 == IF "bot" \in started THEN bot
                        ELSE [NewBot EXCEPT !.is_enabled = settings.zalo_config.personal.enabled]
                  c0 == IF "bot" \notin started /\ b0.is_enabled
                        THEN connect(b0, login_ok, logins + 1)
                        ELSE [b |-> b0, ret |-> FALSE, allocated |-> 0]
                  raises == c0.b.is_connected /\ c0.b.listen_thread # 0
                  c1 == connect(c0.b, login_ok, logins + 1)
                  s == IF c1.ret /\ ~raises
                       THEN start_listening(c1.b, alive, login_ok, logins + 1, threads + 1)
                       ELSE [b |-> c1.b, ret |-> FALSE, allocated |-> 0, spawned |-> 0]
              IN /\ bot' = s.b
                 /\ started' = started \cup {"bot"}
                 /\ logins' = logins + c0.allocated + c1.allocated
                 /\ threads' = threads + s.spawned
                 /\ alive' = IF s.spawned = 1 THEN alive \cup {threads + 1} ELSE alive
                 /\ last' = [CallRecord("manage_zalo_personal_bot(True)", ~raises, login_ok,
                                        b0.is_enabled, b0.is_connected, b0.session,
                                        c0.allocated + c1.allocated)
                                EXCEPT !.spawned = s.spawned]
    /\ UNCHANGED <<advisor, allocs, closed, logouts, inv>>
    /\ UNCHANGED storeVars
    /\ UNCHANGED <<reload, api_key, toolVars, edgeVars>>

\* manage_zalo_personal_bot(False): a connected bot is disconnected and the
\* instance is dropped, whatever disconnect() returned.
ManageBotDisable ==
    /\ \E logout_ok \in BOOLEAN :
         /\ last' = CallRecord("manage_zalo_personal_bot(False)", TRUE, logout_ok,
                               bot.is_enabled, bot.is_connected, bot.session, 0)
         /\ IF "bot" \in started /\ bot.is_connected
            THEN /\ bot' = NewBot
                 /\ started' = started \ {"bot"}
                 /\ logouts' = IF logout_ok THEN [logouts EXCEPT ![bot.session] = @ + 1]
                               ELSE logouts
            ELSE UNCHANGED <<bot, started, logouts>>
    /\ UNCHANGED <<advisor, allocs, logins, closed, inv, alive, threads>>
    /\ UNCHANGED storeVars
    /\ UNCHANGED <<reload, api_key, toolVars, edgeVars>>

\* POST /agent/reload up to its shutdown(): refused when the settings
\* disable the agent; otherwise a session that is initialized is shut down.
\* The handler does not yield before its initialize(), so no other request
\* runs in between; the listener thread, which calls invoke(), does.
ReloadBegin ==
    /\ "advisor" \in started
    /\ reload = "idle"
    /\ allocs < MaxHandles
    /\ IF ~settings.agent_config.enabled
       THEN /\ last' = CallRecord("reload", FALSE, TRUE, advisor.is_enabled,
                                  advisor.is_initialized, advisor.llm.id, 0)
            /\ UNCHANGED <<advisor, closed, reload>>
       ELSE /\ advisor' = shutdown(advisor)
            /\ closed' = IF ClosesClient(advisor)
                         THEN [closed EXCEPT ![advisor.llm.id] = @ + 1]
                         ELSE closed
            /\ reload' = "init"
            /\ UNCHANGED last
    /\ UNCHANGED <<bot, started, allocs, logins, logouts, inv, alive, threads>>
    /\ UNCHANGED storeVars
    /\ UNCHANGED <<api_key, toolVars, edgeVars>>

\* POST /agent/reload from its initialize() to its response.
ReloadInit ==
    /\ reload = "init"
    /\ allocs < MaxHandles \/ advisor.is_initialized \/ ~advisor.is_enabled
    /\ \E outcome \in LLMOutcomes(api_key), react_ok \in BOOLEAN :
         LET r == initialize(advisor, outcome, react_ok, allocs + 1)
         IN /\ advisor' = r.a
            /\ allocs' = allocs + r.allocated
            /\ last' = CallRecord("reload", r.ret, outcome # "raise", advisor.is_enabled,
                                  advisor.is_initialized, advisor.llm.id, r.allocated)
    /\ reload' = "idle"
    /\ UNCHANGED <<bot, started, logins, closed, logouts, inv, alive, threads>>
    /\ UNCHANGED storeVars
    /\ UNCHANGED <<api_key, toolVars, edgeVars>>

\* PATCH /api/config/ with a body on the agent section: the store is
\* updated; when the body carries agent_config.enabled and the value is
\* not the flag the store held before, handle_enabled_state_change is
\* awaited. An exception out of either ends the request with status 400
\* (ret is FALSE). The bodies carry no zalo_config key, so neither bot
\* branch is taken.
PatchConfig(updates) ==
    /\ "advisor" \in started
    /\ allocs < MaxHandles
    /\ \E outcome \in LLMOutcomes(api_key), react_ok \in BOOLEAN :
         LET old_agent_enabled == settings.agent_config.enabled
             u == store_update(settings, updates)
             has_flag == "enabled" \in DOMAIN updates.agent_config.dict
             new_agent_enabled == ToBool(updates.agent_config.dict.enabled)
             h == IF u.ok /\ has_flag /\ new_agent_enabled # old_agent_enabled
                  THEN handle_enabled_state_change(advisor, u.settings, new_agent_enabled,
                                                   outcome, react_ok, allocs + 1)
                  ELSE [a |-> advisor, settings |-> u.settings, raised |-> FALSE, saved |-> FALSE,
                        allocated |-> 0, closes |-> FALSE]
         IN /\ advisor' = h.a
            /\ allocs' = allocs + h.allocated
            /\ closed' = IF h.closes THEN [closed EXCEPT ![advisor.llm.id] = @ + 1] ELSE closed
            /\ settings' = h.settings
            /\ merged_data' = IF h.saved \/ h.raised
                              THEN merge(model_dump(u.settings), save_config_patch(h.a))
                              ELSE merge(model_dump(settings), updates)
            /\ file' = IF u.ok THEN FileOf(model_dump_json(settings')) ELSE file
            /\ written' = (written \/ u.ok)
            /\ last' = CallRecord("PATCH", u.ok /\ ~h.raised, outcome # "raise",
                                  advisor.is_enabled, advisor.is_initialized, advisor.llm.id,
                                  h.allocated)
    /\ request' = updates
    /\ UNCHANGED <<tmp, lock, waiters, pc, buf, patch, conc, touched, phase, loadResult>>
    /\ UNCHANGED <<bot, started, logins, logouts, inv, alive, threads>>
    /\ UNCHANGED <<reload, api_key, toolVars, hook, msg, store>>

\* agent_advisor.update_config({"enabled": new_enabled}): a flag that
\* differs is handed to handle_enabled_state_change, whose exception ends
\* the call; then the configuration is saved again, and a session that is
\* enabled and Ready is shut down and initialized again.
UpdateConfigEnabled(new_enabled) ==
    /\ "advisor" \in started
    /\ allocs + 2 <= MaxHandles
    /\ \E outcome \in LLMOutcomes(api_key), react_ok \in BOOLEAN,
          outcome2 \in LLMOutcomes(api_key), react_ok2 \in BOOLEAN :
         LET h == handle_enabled_state_change(advisor, settings, new_enabled,
                                              outcome, react_ok, allocs + 1)
             u == store_update(h.settings, save_config_patch(h.a))
             rebuild == ~h.raised /\ u.ok /\ h.a.is_enabled /\ h.a.is_initialized
             r == IF rebuild
                  THEN initialize(shutdown(h.a), outcome2, react_ok2, allocs + h.allocated + 1)
                  ELSE [a |-> h.a, ret |-> TRUE, allocated |-> 0]
             done == IF h.raised THEN h.settings ELSE u.settings
         IN /\ advisor' = r.a
            /\ allocs' = allocs + h.allocated + r.allocated
            /\ closed' = [c \in DOMAIN closed |->
                             closed[c]
                             + (IF h.closes /\ c = advisor.llm.id THEN 1 ELSE 0)
                             + (IF rebuild /\ ClosesClient(h.a) /\ c = h.a.llm.id THEN 1 ELSE 0)]
            /\ settings' = done
            /\ merged_data' = IF h.raised
                              THEN merge(model_dump(settings), save_config_patch(h.a))
                              ELSE merge(model_dump(h.settings), save_config_patch(h.a))
            /\ file' = IF done # settings \/ h.saved \/ (~h.raised /\ u.ok)
                       THEN FileOf(model_dump_json(done)) ELSE file
            /\ written' = (written \/ h.saved \/ (~h.raised /\ u.ok))
            /\ last' = CallRecord("update_config", ~h.raised /\ u.ok, outcome # "raise",
                                  advisor.is_enabled, advisor.is_initialized, advisor.llm.id,
                                  h.allocated + r.allocated)
    /\ UNCHANGED <<tmp, lock, waiters, pc, buf, patch, conc, touched, phase, loadResult>>
    /\ UNCHANGED <<bot, started, logins, logouts, inv, alive, threads>>
    /\ UNCHANGED <<reload, api_key, toolVars, edgeVars>>

\* The names under which the calls on the agent session are recorded.
AgentOps ==
    {"AgentAdvisor", "initialize", "shutdown", "update_config", "invoke", "reload",
     HandleOp(TRUE), HandleOp(FALSE)}

\* The names under which the calls on the bot session are recorded.
BotOps ==
    {"ZaloBot", "connect", "disconnect", "start_listening",
     BotHandleOp(TRUE), BotHandleOp(FALSE),
     "manage_zalo_personal_bot(True)", "manage_zalo_personal_bot(False)"}

\* The sessions started on every settings value of LifeSettings.
InitSessions ==
    /\ settings \in LifeSettings
    /\ file = Absent
    /\ phase = "run"
    /\ Idle
    /\ LifeIdle
    /\ api_key = TRUE
    /\ ToolIdle
    /\ EdgeIdle

\* Every call on the agent session.
NextAgent ==
    \/ AdvisorInit
    \/ Initialize
    \/ Shutdown
    \/ \E new_state \in BOOLEAN : AdvisorHandleEnabled(new_state)
    \/ \E config_data \in ConfigDatas : UpdateConfig(config_data)
    \/ InvokeBegin
    \/ InvokeCall

\* Every call on the bot session, and the end of a listener thread.
NextBot ==
    \/ BotInit
    \/ Connect
    \/ Disconnect
    \/ \E new_state \in BOOLEAN : BotHandleEnabled(new_state)
    \/ StartListening
    \/ ListenerExits
    \/ ManageBotEnable
    \/ ManageBotDisable

\* The two sessions share no state (the bot reads only zalo_config, which
\* no call on the agent writes), so a behaviour calls on one of them only.
NextSessions ==
    \/ last.op \notin BotOps /\ NextAgent
    \/ last.op \notin AgentOps /\ NextBot

SpecSessions == InitSessions /\ [][NextSessions]_vars

\* A reload request and the invoke() of the listener thread on the agent
\* session.
NextReload ==
    \/ AdvisorInit
    \/ ReloadBegin
    \/ ReloadInit
    \/ InvokeBegin
    \/ InvokeCall

SpecReload == InitSessions /\ [][NextReload]_vars

\* Settings that name the same tool in two descriptors.
SameToolTwice ==
    [DefaultSettings EXCEPT
        !.agent_config.tools = <<[name |-> "google_search", enabled |-> TRUE],
                                 [name |-> "google_search", enabled |-> TRUE]>>]

\* The tool lists update_config is called with when the tool set is
\* rebuilt: those of ConfigDatas, a name given twice, and the empty list.
RebuildDatas ==
    ConfigDatas \cup {[tools |-> <<ToolName("google_search"), ToolName("google_search")>>],
                      [tools |-> <<>>]}

\* The agent session on every settings value of LifeSettings and on
\* SameToolTwice, with and without an API key.
InitRebuild ==
    /\ settings \in LifeSettings \cup {SameToolTwice}
    /\ file = Absent
    /\ phase = "run"
    /\ Idle
    /\ LifeIdle
    /\ api_key \in BOOLEAN
    /\ ToolIdle
    /\ EdgeIdle

\* The requests that build the tool set or change the tool list.
NextRebuild ==
    \/ AdvisorInit
    \/ Initialize
    \/ Shutdown
    \/ \E config_data \in RebuildDatas : UpdateConfig(config_data)

SpecRebuild == InitRebuild /\ [][NextRebuild]_vars

\* The calls on the bot session alone.
SpecBot == InitSessions /\ [][NextBot]_vars

\* The sessions on the settings of ConfigSettings.
InitConfig ==
    /\ settings \in ConfigSettings
    /\ file = Absent
    /\ phase = "run"
    /\ Idle
    /\ LifeIdle
    /\ api_key = TRUE
    /\ ToolIdle
    /\ EdgeIdle

\* The agent session with invoke() on the listener thread, its steps
\* interleaved with the requests handled on the event loop.
NextRace ==
    \/ AdvisorInit
    \/ Shutdown
    \/ \E new_state \in BOOLEAN : AdvisorHandleEnabled(new_state)
    \/ InvokeChecks
    \/ InvokeInitialize
    \/ InvokeCall

SpecRace == InitConfig /\ [][NextRace]_vars

\* The agent session under settings updates: PATCH /api/config/ and POST
\* /agent/reload. The requests run on the event loop one after another.
NextConfig ==
    \/ AdvisorInit
    \/ \E updates \in ConfigPatches : PatchConfig(updates)
    \/ ReloadBegin
    \/ ReloadInit

SpecConfig == InitConfig /\ [][NextConfig]_vars

\* The calls that change the enabled flag of the agent session: PATCH
\* /api/config/ with the flag, handle_enabled_state_change and
\* update_config with the enabled key.
NextFlag ==
    \/ AdvisorInit
    \/ \E updates \in FlagPatches \cup {PatchBadBool} : PatchConfig(updates)
    \/ \E new_state \in BOOLEAN : AdvisorHandleEnabled(new_state)
    \/ \E new_enabled \in BOOLEAN : UpdateConfigEnabled(new_enabled)

SpecFlag == InitConfig /\ [][NextFlag]_vars

\* ------------------------------------------------------------------------
\* Webhook requests
\* ------------------------------------------------------------------------
\* POST /webhook of main.py: the result of verify_signature is printed and
\* nothing else is done with it; the call of it stands outside the try, so
\* its exception ends the request with status 500. The body is parsed and
\* the answer is success whatever it holds.
ZaloWebhook(mac) ==
    /\ hook' = [endpoint |-> "/webhook", mac |-> mac, event |-> "none",
                status |-> IF verify_signature(mac) = "raised" THEN "500" ELSE "success",
                invoked |-> FALSE, sent |-> FALSE]
    /\ UNCHANGED storeVars
    /\ UNCHANGED lifeVars
    /\ UNCHANGED <<reload, api_key, toolVars, request, msg, store>>

\* POST /api/zalo-oa/webhook: refused with 503 when the OA integration is
\* disabled; a payload without event_name or sender id is answered with
\* an error; a text message is handed to agent_advisor.invoke when the
\* agent is enabled (invoke initializes a session that is not Ready) and
\* the reply, or a fixed text, is sent to the sender; a follow event is
\* answered with a welcome message. The mac header is not read.
ZaloOaWebhook(mac, event) ==
    /\ "advisor" \in started
    /\ allocs < MaxHandles
    /\ \E outcome \in LLMOutcomes(api_key), react_ok \in BOOLEAN :
         LET accepted == settings.zalo_config.oa.enabled /\ event # "invalid"
             invokes == accepted /\ event = "user_send_text" /\ advisor.is_enabled
             r == IF invokes /\ invoke_needs_init(advisor)
                  THEN initialize(advisor, outcome, react_ok, allocs + 1)
                  ELSE [a |-> advisor, ret |-> FALSE, allocated |-> 0]
         IN /\ advisor' = r.a
            /\ allocs' = allocs + r.allocated
            /\ hook' = [endpoint |-> "/api/zalo-oa/webhook", mac |-> mac, event |-> event,
                        status |-> IF ~settings.zalo_config.oa.enabled THEN "503"
                                   ELSE IF event = "invalid" THEN "error"
                                   ELSE "success",
                        invoked |-> invokes,
                        sent |-> accepted /\ event \in {"user_send_text", "user_follow_oa"}]
    /\ UNCHANGED <<bot, started, logins, closed, logouts, last, inv, alive, threads>>
    /\ UNCHANGED storeVars
    /\ UNCHANGED <<reload, api_key, toolVars, request, msg, store>>

\* The guard of onMessage and onEvent without its is_connected check.
accepts_enabled(b) == b.is_enabled

\* The guard of onMessage and onEvent: the callback goes on only for a bot
\* that is enabled and connected.
accepts(b) == b.is_enabled /\ b.is_connected

\* onMessage(mid, author_id, message, ...) called by the listener thread:
\* nothing for a disabled or disconnected bot, nothing for the bot's own
\* messages (uidFrom = '0'); otherwise last_activity is set, the handler
\* processes the message and a non-empty response is sent.
OnMessage(text, own) ==
    /\ "bot" \in started
    /\ "advisor" \in started
    /\ bot.listen_thread \in alive
    /\ allocs < MaxHandles
    /\ inv.pc = "idle"
    /\ LET passes == accepts(bot)
           handled == passes /\ ~own /\ bot.message_handler
           invokes == handled /\ ~text.bang
           delivered(agent, response) ==
               [kind |-> "message", n |-> 1 - msg.n, text |-> text, own |-> own,
                dropped |-> ~passes, activity |-> passes /\ ~own, handled |-> handled,
                agent |-> agent, reply |-> IF handled THEN response ELSE <<>>,
                sent |-> handled /\ response # <<>>]
       IN IF invokes
          THEN \E outcome \in LLMOutcomes(api_key), react_ok \in BOOLEAN, agent_ok \in BOOLEAN,
                  answer \in AgentAnswers :
                 LET i == invoke(advisor, outcome, react_ok, agent_ok, answer, allocs + 1)
                 IN /\ msg' = delivered(i.result, process_message(text, i.response))
                    /\ advisor' = i.a
                    /\ allocs' = allocs + i.allocated
                    /\ inv' = [pc |-> "idle", attempts |-> i.attempts,
                               model_invoked |-> i.result \in {"response", "error"}
                                                 /\ i.a.agent.kind = "react",
                               result |-> i.result]
          ELSE /\ msg' = delivered("none", process_message(text, [output |-> "error"]))
               /\ UNCHANGED <<advisor, allocs, inv>>
    /\ UNCHANGED <<bot, started, logins, closed, logouts, last, alive, threads>>
    /\ UNCHANGED storeVars
    /\ UNCHANGED <<reload, api_key, toolVars, hook, request, store>>

\* onEvent(event_data, event_type) called by the listener thread: the
\* event is logged by an enabled and connected bot and ignored otherwise.
OnEvent ==
    /\ "bot" \in started
    /\ bot.listen_thread \in alive
    /\ msg' = [NoMsg EXCEPT !.kind = "event", !.n = 1 - msg.n,
                            !.dropped = ~accepts(bot)]
    /\ UNCHANGED lifeVars
    /\ UNCHANGED storeVars
    /\ UNCHANGED <<reload, api_key, toolVars, hook, request, store>>

\* The bot enabled in the settings; the agent enabled without tool
\* descriptors, or with two descriptors and enabled or not.
InitInbound ==
    /\ settings \in {[DefaultSettings EXCEPT !.zalo_config.personal.enabled = TRUE,
                                             !.agent_config.enabled = c[1],
                                             !.agent_config.tools = c[2]] :
                         c \in {<<TRUE, <<>> >>, <<TRUE, TwoTools>>, <<FALSE, TwoTools>>}}
    /\ file = Absent
    /\ phase = "run"
    /\ Idle
    /\ LifeIdle
    /\ api_key = TRUE
    /\ ToolIdle
    /\ EdgeIdle

\* The listener delivering messages and events while the sessions are
\* started, stopped, enabled and disabled.
NextInbound ==
    \/ AdvisorInit
    \/ BotInit
    \/ StartListening
    \/ Disconnect
    \/ \E new_state \in BOOLEAN : BotHandleEnabled(new_state)
    \/ \E text \in Texts, own \in BOOLEAN : OnMessage(text, own)
    \/ OnEvent

SpecInbound == InitInbound /\ [][NextInbound]_vars

\* What the store actions leave alone.
StoreOnly ==
    /\ UNCHANGED lifeVars
    /\ UNCHANGED storeVars
    /\ UNCHANGED <<reload, api_key, toolVars, hook, request, msg>>

\* subscribe(scope, cb)
Subscribe(scope, cb) ==
    /\ \A k \in SubscriberScopes : \A i \in 1..Len(store.subscribers[k]) :
          store.subscribers[k][i] # cb
    /\ store' = [store EXCEPT !.subscribers[scope] = Append(@, cb)]
    /\ StoreOnly

\* start(): _running is set and the worker task is created. It is called
\* here only when no worker task is left from an earlier start().
StoreStart ==
    /\ ~store.running
    /\ store.worker = "none"
    /\ store' = [store EXCEPT !.running = TRUE, !.worker = "top"]
    /\ StoreOnly

\* stop(): _running is cleared and the sections are saved.
StoreStop ==
    /\ store.running
    /\ store' = [store EXCEPT !.running = FALSE, !.saved = store.changes]
    /\ StoreOnly

\* update_agent, update_zalo, ...: a section is changed in memory and the
\* change is published, i.e. put on the event queue.
Publish(scope) ==
    /\ store.changes < MaxEvents
    /\ store' = [store EXCEPT !.changes = @ + 1,
                              !.event[store.changes + 1] = "queued",
                              !.event_q = Append(@, [n |-> store.changes + 1, scope |-> scope])]
    /\ StoreOnly

\* _worker, the loop test: the task ends once _running is false.
WorkerLoop ==
    /\ store.worker = "top"
    /\ store' = [store EXCEPT !.worker = IF store.running THEN "get" ELSE "none"]
    /\ StoreOnly

\* _worker, wait_for(self._event_q.get(), timeout=1.0) on an empty queue:
\* TimeoutError, continue.
WorkerTimeout ==
    /\ store.worker = "get"
    /\ store.event_q = <<>>
    /\ store' = [store EXCEPT !.worker = "top"]
    /\ StoreOnly

\* _worker, one event: it is taken from the queue and handed to the
\* callbacks of its scope and of "*"; then the sections are saved. An
\* exception of a callback ends the fan-out and skips the save.
WorkerEvent ==
    /\ store.worker = "get"
    /\ store.event_q # <<>>
    /\ \E raising \in SUBSET Callbacks :
         LET e == Head(store.event_q)
             cbs == fan_out(store.subscribers, e.scope)
             reached == called(cbs, raising)
             raised == \E i \in 1..Len(reached) : reached[i] \in raising
         IN store' = [store EXCEPT
                        !.worker = "top",
                        !.event_q = Tail(@),
                        !.got = [cb \in Callbacks |->
                                    IF \E i \in 1..Len(reached) : reached[i] = cb
                                    THEN Append(@[cb], e.n) ELSE @[cb]],
                        !.missed = @ \cup {<<cbs[i], e.n>> : i \in (Len(reached) + 1)..Len(cbs)},
                        !.saved = IF raised THEN @ ELSE store.changes,
                        !.event[e.n] = IF raised THEN "failed" ELSE "done"]
    /\ StoreOnly

\* The AppConfigStore alone.
InitStore ==
    /\ settings = DefaultSettings
    /\ file = Absent
    /\ phase = "run"
    /\ Idle
    /\ LifeIdle
    /\ api_key = TRUE
    /\ ToolIdle
    /\ EdgeIdle

NextStore ==
    \/ \E scope \in SubscriberScopes, cb \in Callbacks : Subscribe(scope, cb)
    \/ StoreStart
    \/ StoreStop
    \/ \E scope \in Scopes : Publish(scope)
    \/ WorkerLoop
    \/ WorkerTimeout
    \/ WorkerEvent

SpecStore == InitStore /\ [][NextStore]_vars

\* The worker task is scheduled by the event loop whenever it can run, and
\* its wait on the queue ends after one second at most.
SpecStoreLive ==
    /\ SpecStore
    /\ WF_vars(WorkerLoop)
    /\ WF_vars(WorkerTimeout)
    /\ WF_vars(WorkerEvent)

\* The agent session on every settings value, the OA integration enabled
\* or not.
InitWebhook ==
    /\ settings \in {[S EXCEPT !.zalo_config.oa.enabled = e] : S \in LifeSettings, e \in BOOLEAN}
    /\ file = Absent
    /\ phase = "run"
    /\ Idle
    /\ LifeIdle
    /\ api_key = TRUE
    /\ ToolIdle
    /\ EdgeIdle

NextWebhook ==
    \/ AdvisorInit
    \/ Shutdown
    \/ \E mac \in Macs : ZaloWebhook(mac)
    \/ \E mac \in Macs, event \in HookEvents : ZaloOaWebhook(mac, event)

SpecWebhook == InitWebhook /\ [][NextWebhook]_vars

\* ------------------------------------------------------------------------
\* Input schema of a configurable tool
\* ------------------------------------------------------------------------
\* BaseConfigurableTool.__init__ handing _generate_input_schema() to the
\* constructor of BaseTool as args_schema.
GenerateInputSchema ==
    /\ ~args_schema.built
    /\ args_schema' = [built |-> TRUE,
                       fields |-> generate_input_schema(tool_config.param, tool_config.body)]
    /\ UNCHANGED <<tool_config, reload, api_key, edgeVars>>
    /\ UNCHANGED storeVars
    /\ UNCHANGED lifeVars

\* A tool is built from every input section of ToolConfigs.
InitSchema ==
    /\ settings = DefaultSettings
    /\ file = Absent
    /\ phase = "run"
    /\ Idle
    /\ LifeIdle
    /\ api_key = TRUE
    /\ tool_config \in ToolConfigs
    /\ args_schema = NoSchema
    /\ EdgeIdle

NextSchema == GenerateInputSchema

SpecSchema == InitSchema /\ [][NextSchema]_vars

\* ------------------------------------------------------------------------
\* Properties
\* ------------------------------------------------------------------------
\* Caller p makes an update() call in this step.
Calls(p) == pc[p] = "idle" /\ pc'[p] # "idle"

\* Caller p returns from a successful update() in this step.
Returns(p) == pc[p] # "returned" /\ pc'[p] = "returned"

\* A complete document that is the dump of a validated settings snapshot.
CompleteDocument(f) ==
    /\ f.exists
    /\ JsonOk(f.text)
    /\ ValidationOk(json_loads(f.text))
    /\ model_dump_json(model_validate(json_loads(f.text))) = f.text

\* C1: when the merged tree fails validation, update() ends with an error
\* and leaves the in-memory settings and the config file exactly as they
\* were, for every prior settings value and every patch.
C1_RejectedUpdateChangesNothing ==
    [][\A p \in Procs :
          (Calls(p) /\ ~ValidationOk(merged_data'))
              => /\ pc'[p] = "raised"
                 /\ settings' = settings
                 /\ file' = file /\ tmp' = tmp]_vars

C1_Witness ==
    \E p \in Procs :
        /\ pc[p] = "raised"
        /\ settings # DefaultSettings
        /\ file = FileOf(model_dump_json(settings))

\* C2: the config file is never half-written: until save() first replaces
\* it the file is as it was found at start, and from then on it is always a
\* complete document equal to the dump of a validated settings snapshot,
\* whatever the temp file holds and even when file operations fail.
C2_FileNeverHalfWritten ==
    IF written THEN CompleteDocument(file) ELSE file \in InitFiles

C2_Witness ==
    \E p \in Procs :
        /\ pc[p] = "flush"
        /\ tmp.exists /\ ~JsonOk(tmp.text) /\ Len(tmp.text) > 0
        /\ written
        /\ CompleteDocument(file)

\* Settings S already contain patch P: applying P again changes nothing.
Contains(S, P) ==
    /\ ValidationOk(merge(model_dump(S), P))
    /\ model_validate(merge(model_dump(S), P)) = S

SubtreeRoots ==
    {<<"agent_config", "enabled">>, <<"agent_config", "system_prompt">>,
     <<"agent_config", "tools">>, <<"agent_config", "model">>,
     <<"zalo_config", "oa">>, <<"zalo_config", "personal">>}

\* Patch P is not empty and writes only inside the subtree at path ab.
Inside(P, ab) ==
    /\ LeafPaths(P, <<>>) # {}
    /\ \A x \in LeafPaths(P, <<>>) : IsPrefix(ab, x)

\* C4: a patch whose keys all lie inside one subtree a.b leaves every
\* value of the settings outside a.b unchanged.
C4_OtherSubtreesUnchanged ==
    [][\A p \in Procs : \A ab \in SubtreeRoots :
          (Calls(p) /\ Inside(patch'[p], ab))
              => \A x \in LeafPaths(model_dump(settings), <<>>) :
                     ~IsPrefix(ab, x)
                         => Lookup(model_dump(settings'), x) = Lookup(model_dump(settings), x)]_vars

C4_Witness ==
    \E p \in Procs :
        /\ pc[p] = "returned"
        /\ Inside(patch[p], <<"agent_config", "model">>)
        /\ settings.agent_config.model # DefaultModel
        /\ settings.agent_config.enabled = FALSE
        /\ settings.agent_config.tools # <<>>
        /\ settings.zalo_config.personal.enabled

Replaced(a, b, y) ==
    /\ Lookup(b, y) # Missing
    /\ ~(IsDict(Lookup(b, y)) /\ Lookup(a, y) # Missing /\ IsDict(Lookup(a, y)))

IsReferenceMerge(a, b, m) ==
    \A x \in NodePaths(a, <<>>) \cup NodePaths(b, <<>>) \cup NodePaths(m, <<>>) :
        IF \E i \in 1..Len(x) : Replaced(a, b, SubSeq(x, 1, i))
        THEN Lookup(m, x) = Lookup(b, x)
        ELSE IF Lookup(b, x) = Missing
             THEN Lookup(m, x) = Lookup(a, x)
             ELSE /\ IsDict(Lookup(m, x))
                  /\ DOMAIN Lookup(m, x).dict =
                         DOMAIN Lookup(a, x).dict \cup DOMAIN Lookup(b, x).dict

\* C6: the tree update() builds from the dumped settings and the patch is
\* the structural merge-patch (recursing where both values are dicts,
\* replacing otherwise, keeping what the patch does not mention), and an
\* accepted update installs the validated form of exactly that tree.
C6_UpdateComputesMergePatch ==
    [][\A p \in Procs :
          Calls(p)
              => /\ IsReferenceMerge(model_dump(settings), patch'[p], merged_data')
                 /\ ValidationOk(merged_data') => settings' = model_validate(merged_data')]_vars

C6_Witness ==
    \E p \in Procs :
        /\ pc[p] = "returned"
        /\ \E x \in LeafPaths(patch[p], <<>>) : Len(x) = 3
        /\ \E x \in LeafPaths(patch[p], <<>>) : Len(x) = 2
        /\ settings = model_validate(merged_data)
        /\ merged_data # model_dump(settings)

\* C7: load() never fails: whatever the config file holds, load() completes
\* and leaves validated settings in memory.
C7_LoadNeverFails == loadResult # "raised"

\* Callers inside the write-temp-file-and-rename section of save().
InSave == {p \in Procs : pc[p] \in {"open", "write", "flush", "close"}}

\* C8: at most one caller is inside the write-and-rename section of save(),
\* and it holds the lock; the in-memory settings a reader sees are always a
\* validated snapshot, namely the validated merge of the latest accepted
\* update.
C8_WritersSerialized ==
    /\ Cardinality(InSave) <= 1
    /\ \A p \in InSave : lock = p
    /\ \A p \in Procs : pc[p] = "wait" => \E i \in 1..Len(waiters) : waiters[i] = p
    /\ ValidationOk(model_dump(settings))
    /\ model_validate(model_dump(settings)) = settings
    /\ ((\E p \in Procs : pc[p] # "idle") /\ ValidationOk(merged_data))
           => settings = model_validate(merged_data)

C8_Witness ==
    \E p, q \in Procs :
        /\ pc[p] = "flush"
        /\ pc[q] = "wait"
        /\ lock = p

C10_EnableIsIdempotent ==
    /\ (last.op = "initialize" /\ last.was_enabled /\ last.ok)
           => /\ last.ret /\ advisor.is_initialized
              /\ last.was_ready => (advisor.llm.id = last.handle /\ last.allocated = 0)
    /\ (last.op = "connect" /\ last.was_enabled /\ last.ok)
           => /\ last.ret /\ bot.is_connected
              /\ last.was_ready => (bot.session = last.handle /\ last.allocated = 0)

\* The calls that disable a session.
AgentDisableOps == {"shutdown", HandleOp(FALSE)}
BotDisableOps == {"disconnect", BotHandleOp(FALSE), "manage_zalo_personal_bot(False)"}

C12_DisableIsIdempotent ==
    [][/\ (last' # last /\ last'.op = "shutdown" /\ ~last'.was_ready)
          => /\ advisor' = advisor
             /\ closed' = closed
             /\ last'.ret
       /\ (last' # last /\ last'.op = "disconnect" /\ ~last'.was_ready)
          => /\ bot' = bot
             /\ logouts' = logouts /\ alive' = alive
             /\ last'.ret]_vars

C12_Witness ==
    /\ last.op = "shutdown" /\ ~last.was_ready
    /\ last.handle # 0
    /\ advisor.llm.kind = "groq"
    /\ closed[last.handle] = 1

\* The agent session holds an LLM client that was never closed.
LiveClient == advisor.llm.kind = "groq" /\ closed[advisor.llm.id] = 0

\* C13: after shutdown() or handle_enabled_state_change(False) has run on
\* a Ready agent session, the session is Disabled: not initialized, with
\* no built agent, its LLM client released and its tool set empty.
C13_DisabledAfterDisable ==
    (last.op \in AgentDisableOps /\ last.was_ready /\ last.was_enabled)
        => /\ ~advisor.is_initialized
           /\ advisor.agent = NoAgent
           /\ ~LiveClient
           /\ advisor.tools = <<>>

\* C14: with two enabled tool descriptors configured, a
\* handle_enabled_state_change(True) on the disabled agent session (the
\* first one, or one that follows a handle_enabled_state_change(False))
\* leaves the session Ready with a tool set of exactly 2 entries.
C14_TwoToolsBuilt ==
    (/\ last.op = HandleOp(TRUE) /\ ~last.was_enabled /\ last.ok
     /\ advisor.enabled_tools = [i \in 1..2 |-> ToolEntry(TwoTools[i])])
        => /\ advisor.is_initialized
           /\ Len(advisor.tools) = 2

\* The step is a handle_enabled_state_change call of the given name whose
\* argument equals the enabled flag the session had.
NoChangeCall(on, off) ==
    /\ last' # last
    /\ \/ last'.op = on /\ last'.was_enabled
       \/ last'.op = off /\ ~last'.was_enabled

\* C15: handle_enabled_state_change(new_state) with new_state equal to the
\* session's enabled flag changes nothing: the session is as before, no
\* resource is allocated or released, no listener thread is started or
\* ended, and the settings store and its file are untouched.
C15_SameFlagIsNoOp ==
    [][/\ NoChangeCall(HandleOp(TRUE), HandleOp(FALSE))
          => UNCHANGED <<advisor, allocs, closed, inv, storeVars>>
       /\ NoChangeCall(BotHandleOp(TRUE), BotHandleOp(FALSE))
          => UNCHANGED <<bot, logins, logouts, alive, threads, storeVars>>]_vars

C15_Witness ==
    /\ last.op = HandleOp(TRUE) /\ last.was_enabled /\ last.was_ready
    /\ advisor.is_initialized
    /\ ~written /\ file = Absent

\* C16: a handle_enabled_state_change(new_state) that changes the agent
\* session's flag returns with the settings store holding
\* agent_config.enabled = new_state, whether or not the session reached
\* Ready.
C16_FlagPersisted ==
    /\ (last.op = HandleOp(TRUE) /\ ~last.was_enabled)
           => (last.ret /\ settings.agent_config.enabled)
    /\ (last.op = HandleOp(FALSE) /\ last.was_enabled)
           => (last.ret /\ ~settings.agent_config.enabled)

\* C17: after an initialize() that failed on an enabled session, the
\* session holds no live LLM client and no tool instances.
C17_FailedEnableReleases ==
    (last.op = "initialize" /\ last.was_enabled /\ ~last.was_ready /\ ~last.ret)
        => /\ ~LiveClient
           /\ advisor.tools = <<>>

\* The keys under which a status dict would carry a failure reason.
DiagnosticKeys == {"error", "last_error", "reason", "diagnostic"}

\* C18: after an initialize() that failed on an enabled session, the
\* status query returns the failure reason.
C18_FailureReasonInStatus ==
    (last.op = "initialize" /\ last.was_enabled /\ ~last.ret)
        => DOMAIN get_status(advisor) \cap DiagnosticKeys # {}

\* The step is the first part of an invoke() call.
InvokeStarts == last' # last /\ last'.op = "invoke"

\* C19 as stated: invoke() on a session that is not Ready, the enabled
\* flag false included, makes exactly one initialize attempt.
C19_OneAttemptWheneverNotReady ==
    [][(InvokeStarts /\ ~last'.was_ready) => inv'.attempts = 1]_vars

\* C19: invoke() on an enabled session that is not Ready makes exactly one
\* initialize attempt and goes on to the agent only if the attempt left
\* the session initialized; on a session whose enabled flag is false it
\* makes no attempt and answers that the agent is disabled; on a Ready
\* session it makes no attempt; the agent is invoked only on an
\* initialized session.
C19_OneAttemptWhenEnabled ==
    [][/\ InvokeStarts
          => /\ inv'.attempts = IF last'.was_enabled /\ ~last'.was_ready THEN 1 ELSE 0
             /\ ~last'.was_enabled => (inv'.pc = "idle" /\ inv'.result = "disabled")
             /\ (inv'.attempts = 1 /\ ~advisor'.is_initialized)
                    => (inv'.pc = "idle" /\ inv'.result = "not initialized")
             /\ inv'.pc = "call" => advisor'.is_initialized
       /\ (inv.pc = "call" /\ inv'.pc = "idle" /\ inv'.model_invoked)
          => advisor.is_initialized]_vars

C19_Witness ==
    /\ last.op = "invoke" /\ last.was_enabled /\ ~last.was_ready
    /\ inv.pc = "idle" /\ inv.attempts = 1
    /\ inv.model_invoked /\ inv.result = "response"

\* C20: invoke() never raises: each part of the call ends with a reply,
\* and when the session is disabled, the lazy initialize fails or the
\* agent call fails (the agent reference cleared by a shutdown in between
\* included), the reply carries the error description.
C20_InvokeNeverRaises ==
    /\ [](inv.result \in {"none", "response", "disabled", "not initialized", "error"})
    /\ [][(inv.pc = "call" /\ inv'.pc = "idle")
             => /\ inv'.result \in {"response", "error"}
                /\ (advisor.agent = NoAgent \/ ~inv'.model_invoked) => inv'.result = "error"]_vars

C20_Witness ==
    /\ inv.pc = "idle" /\ inv.result = "error" /\ inv.attempts = 0
    /\ last.op = "shutdown" /\ last.was_ready
    /\ advisor.agent = NoAgent

\* The names of the entries of a list of tools or of tool descriptors.
Names(lst) == {lst[i].name : i \in 1..Len(lst)}

\* The names of the descriptors of a tool list that are enabled.
EnabledNames(lst) == {lst[i].name : i \in {j \in 1..Len(lst) : lst[j].enabled}}

\* The calls that build the tool set, when they constructed an LLM object
\* (the tool set is built right after it).
BuildOps == {"AgentAdvisor", "initialize", "update_config"}

\* C21: a reload that races with an invoke() in flight swaps the bound
\* agent atomically: between its checks and its agent call the invoke()
\* finds the session initialized and an agent bound, the old one or the new
\* one, never a cleared reference.
C21_ReinitSwapsAtomically ==
    inv.pc = "call" => (advisor.is_initialized /\ advisor.agent # NoAgent)

\* C22: the built tool set holds exactly one capability for every enabled
\* descriptor of the tool list, named after it, and none for a descriptor
\* with enabled = false.
C22_BuiltSetIsEnabledDescriptors ==
    (last.op \in BuildOps /\ last.allocated = 1 /\ advisor.is_initialized)
        => /\ Names(advisor.tools) = EnabledNames(advisor.enabled_tools)
           /\ Len(advisor.tools) = Cardinality(EnabledNames(advisor.enabled_tools))

\* C23: when the construction of one tool fails, that tool alone is
\* omitted: an initialize() on an enabled session whose LLM was built
\* reaches Ready, and every other tool named in the list is in the set.
C23_BadToolOmittedOnly ==
    (/\ last.op \in {"AgentAdvisor", "initialize"}
     /\ last.was_enabled /\ ~last.was_ready /\ last.ok)
        => /\ last.ret
           /\ advisor.is_initialized
           /\ InList("google_search", advisor.enabled_tools)
                  => "google_search" \in Names(advisor.tools)

\* How often a name occurs in a tool list.
Occurrences(name, lst) == Cardinality({i \in 1..Len(lst) : lst[i].name = name})

\* C24: the tool set never holds two capabilities of the same name, and
\* after a build on a tool list that has a name more than once the set
\* holds a capability for that name.
C24_OneCapabilityPerName ==
    /\ \A i, j \in 1..Len(advisor.tools) :
           advisor.tools[i].name = advisor.tools[j].name => i = j
    /\ (last.op \in BuildOps /\ last.allocated = 1 /\ advisor.is_initialized)
           => \A name \in EnabledNames(advisor.enabled_tools) :
                  Occurrences(name, advisor.enabled_tools) > 1
                      => name \in Names(advisor.tools)

\* C25: every rebuild of the tool set, whether the session was initialized
\* before it or not, leaves in the set only tools whose name is in the tool
\* list as update_config last set it, and each of them is an instance
\* constructed by this rebuild, none taken over from the set before.
C25_RemovedToolDroppedOnRefresh ==
    [][(last' # last /\ last'.op \in BuildOps /\ last'.allocated = 1)
          => \A i \in 1..Len(advisor'.tools) :
                 /\ InList(advisor'.tools[i].name, advisor'.enabled_tools)
                 /\ advisor'.tools[i].born = allocs'
                 /\ \A j \in 1..Len(advisor.tools) : advisor.tools[j] # advisor'.tools[i]]_vars

C25_Witness ==
    /\ last.op = "initialize" /\ last.ret /\ advisor.is_initialized
    /\ settings.agent_config.tools = <<>>
    /\ advisor.enabled_tools = <<ToolName("google_search")>>
    /\ advisor.tools = <<Tool("google_search", 2)>>

\* C26: the generated input schema has exactly one field per declared
\* parameter and body field name; its type is the one the declared type
\* maps to; it is required exactly when the declaration says required =
\* true, and is otherwise optional with the declared default.
C26_SchemaFollowsDeclaration ==
    args_schema.built
        => /\ DOMAIN args_schema.fields = DOMAIN tool_config.param \cup DOMAIN tool_config.body
           /\ \A section \in {tool_config.param, tool_config.body} :
                \A name \in DOMAIN section :
                    LET field == args_schema.fields[name]
                    IN /\ field.type = auto_map_type(Get(section[name], "type", "string"))
                       /\ field.required = Get(section[name], "required", FALSE)
                       /\ ~field.required => field.default = Get(section[name], "default", None)

\* The step is a start_listening() call made while the thread the bot holds
\* is alive.
LiveListenerCall ==
    last' # last /\ last'.op = "start_listening" /\ bot.listen_thread \in alive

\* C27: a start_listening() call made while a live listener is
\* running returns success and creates no thread.
C27_StartListeningNoOpWhenLive ==
    [][LiveListenerCall
          => /\ last'.ret
             /\ threads' = threads /\ alive' = alive
             /\ bot'.listen_thread = bot.listen_thread]_vars

\* C28: the process never has more than one live listener thread.
C28_OneLiveListener == Cardinality(alive) <= 1

\* C29: after handle_enabled_state_change(False) on an enabled bot the
\* status query reports enabled, connected and listening all false.
C29_DisableClearsStatus ==
    (last.op = BotHandleOp(FALSE) /\ last.was_enabled)
        => bot_get_status(bot, alive)
               = [enabled |-> FALSE, connected |-> FALSE, listening |-> FALSE]

\* C30: the agent session is initialized only if a non-empty API key was
\* found in the environment or the settings.
C30_ReadyNeedsCredential == advisor.is_initialized => api_key

\* C31: the agent is invoked and a reply is sent for a webhook event only
\* when the mac header of the request is the HMAC-SHA256 digest of its body,
\* and a request whose mac is missing or wrong is not answered with success.
C31_WebhookVerifiedFirst ==
    /\ (hook.invoked \/ hook.sent) => hook.mac = "valid"
    /\ hook.mac \in {"missing", "wrong"} => hook.status # "success"

\* The tool list of the settings as load_config hands it to a session.
ToolsOf(S) == [i \in 1..Len(S.agent_config.tools) |-> ToolEntry(S.agent_config.tools[i])]

\* C32: once a PATCH or a reload has completed on a session that is Ready,
\* the model parameters, the prompt and the tool list the session and its
\* agent run with are those of the settings.
C32_ReadyAgentFollowsSettings ==
    (last.op \in {"PATCH", "reload"} /\ last.ret /\ advisor.is_initialized)
        => /\ advisor.agent.prompt = settings.agent_config.system_prompt
           /\ advisor.prompt = settings.agent_config.system_prompt
           /\ advisor.model = settings.agent_config.model
           /\ (settings.agent_config.tools # <<>>
                  => advisor.enabled_tools = ToolsOf(settings))

\* The settings that result from applying the body of a PATCH to S.
Patched(S, updates) == store_update(S, updates).settings

\* The step is a PATCH whose body sets the enabled flag to another value
\* and is accepted by the store.
FlagChangingPatch ==
    /\ last' # last /\ last'.op = "PATCH"
    /\ "enabled" \in DOMAIN request'.agent_config.dict
    /\ store_update(settings, request').ok
    /\ Patched(settings, request').agent_config.enabled # settings.agent_config.enabled

\* C33: after a PATCH that changes the enabled flag together with other
\* fields and the handle_enabled_state_change it causes, the settings are
\* the settings as the PATCH left them: the save of the flag changes no
\* other field.
C33_FlagSaveKeepsPatchedFields ==
    [][FlagChangingPatch => settings' = Patched(settings, request')]_vars

\* C34: in every state the agent session is initialized only if it is
\* enabled and holds a built agent.
C34_ReadyOnlyWhenEnabled ==
    advisor.is_initialized => (advisor.is_enabled /\ advisor.agent # NoAgent)

\* C35: connect() and the constructor create no listener thread and leave
\* the thread reference alone; a listener thread is created only for a bot
\* that is enabled and connected when the call ends, and becomes the
\* thread the bot holds; start_listening() on a disabled bot, or on a
\* disconnected bot whose login fails, returns False and creates no thread.
C35_ListenerBoundToLiveConnection ==
    [][/\ (last' # last /\ last'.op \in {"connect", "ZaloBot"})
            => /\ threads' = threads /\ alive' = alive
               /\ bot'.listen_thread = bot.listen_thread
       /\ threads' # threads
            => /\ bot'.is_enabled /\ bot'.is_connected
               /\ bot'.listen_thread = threads' /\ threads' \in alive'
       /\ (/\ last' # last /\ last'.op = "start_listening"
           /\ (~bot.is_enabled \/ (~bot.is_connected /\ ~last'.ok)))
            => /\ ~last'.ret
               /\ threads' = threads /\ alive' = alive
               /\ bot'.listen_thread = bot.listen_thread]_vars

\* start_listening() found the bot enabled and disconnected, logged in and
\* started the listener thread.
C35_Witness ==
    /\ last.op = "start_listening" /\ last.ret
    /\ last.was_enabled /\ ~last.was_ready
    /\ last.allocated = 1 /\ last.spawned = 1
    /\ bot.is_connected /\ bot.listen_thread \in alive
\* C36: process_message returns a non-empty reply for every message the bot
\* hands to it, command or normal, whatever the agent session answered
\* (disabled, not initialized, error, an answer without usable content), and
\* the reply is sent.
C36_ReplyAlwaysRenderable ==
    (msg.kind = "message" /\ msg.handled)
        => /\ msg.reply # <<>>
           /\ msg.sent
           /\ (~msg.text.bang /\ msg.agent # "response") => msg.reply = FALLBACK_RESPONSE

C36_Witness ==
    /\ msg.kind = "message" /\ msg.handled /\ ~msg.text.bang
    /\ msg.agent = "response"
    /\ msg.reply = FALLBACK_RESPONSE
    /\ msg.sent

\* A session constructed on the settings S, before its initialize().
Loaded(S) == load_config(NewAdvisor, S)

\* C37: after an update_config call that completed, the store holds the
\* prompt, the tool list and the model parameters of the session, and a
\* newly constructed AgentAdvisor loads the same prompt, tools and model
\* parameters.
C37_UpdateConfigRoundTrips ==
    [][(last' # last /\ last'.op = "update_config" /\ last'.ret)
         => /\ settings'.agent_config.system_prompt = advisor'.prompt
            /\ settings'.agent_config.model = advisor'.model
            /\ Len(settings'.agent_config.tools) = Len(advisor'.enabled_tools)
            /\ Loaded(settings').prompt = advisor'.prompt
            /\ Loaded(settings').model = advisor'.model
            /\ Loaded(settings').enabled_tools = advisor'.enabled_tools]_vars

\* C38: between calls, the enabled flag of a constructed agent session
\* equals agent_config.enabled of the settings, whatever PATCH,
\* update_config and handle_enabled_state_change calls were made and whether
\* or not their save was rejected.
C38_FlagsAgree ==
    "advisor" \in started => advisor.is_enabled = settings.agent_config.enabled

Delivered(n) ==
    /\ store.event[n] \in {"done", "failed"}
    /\ \A cb \in Callbacks : <<cb, n>> \notin store.missed

\* The config file holds change n.
Persisted(n) == store.saved >= n

\* C40: every change published is eventually delivered to every subscriber
\* of its scope and of "*" and saved, also when callbacks raise, unless the
\* store is stopped first.
C40_PublishedEventuallyDelivered ==
    \A n \in 1..MaxEvents :
        (store.event[n] = "queued" /\ store.running)
            ~> ((Delivered(n) /\ Persisted(n)) \/ ~store.running)
====
